---- MODULE Spec2Model ----
(***************************************************************************)
(* The client-side logging subsystem: the storage-backed Logger facade     *)
(* (src/unnamed/part_002), its sink (src/lib/logging/indexed-db-storage.ts) *)
(* and its subscriber channel.                                             *)
(*                                                                         *)
(* JavaScript runs every handler to completion; an async method is cut at  *)
(* its await, and a notification is cut at each listener callback, because *)
(* a listener is caller code whose behaviour (return, throw, subscribe,    *)
(* unsubscribe) is an input.  While a notification is being delivered no   *)
(* other handler runs.                                                     *)
(***************************************************************************)
EXTENDS Integers, Sequences, FiniteSets, TLC

\* The bound of the model: the number of events a run is made of, an event
\* being a method call, a registration or a tick of the clock.
MaxOps == 3

\* The callbacks callers may register, numbered as they first appear.  A
\* callback may be registered again while it is registered.
Listeners == 1..MaxOps

\* enum LogType
LogType == {"info", "error", "success", "warning"}

\* The identifiers crypto.randomUUID() returns are keys of the object store
\* and only their order matters.  Keys lie strictly between 0 and KeyTop.
KeyTop == 2 ^ MaxOps

VARIABLES
    listeners,      \* Logger.listeners: the array of registered callbacks
    db,             \* the records of the sink the facade holds
    uuids,          \* the identifiers crypto.randomUUID() has returned
    clock,          \* Date.now()
    ops,            \* the number of events so far
    calls,          \* the method calls in flight, in call order
    last,           \* the method call that completed last, with its result,
                    \* until the next event
    iter,           \* the forEach of notifyListeners in progress, if any
    trace,          \* the notifications of the call that notified last,
                    \* until the next event
    handles,        \* callbacks for which an unsubscribe function exists
    unsubscribed,   \* callbacks whose unsubscribe function was called since
                    \* they were last registered
    regBefore,      \* the pairs <<a, b>> of callbacks registered at present
                    \* with a registered before b
    hooks,          \* the useLogger hooks there have been, by the callback
                    \* each registered: its React state and what its callback
                    \* was handed
    storage         \* Logger.storage: the sink the facade holds, and the
                    \* sinks it held before on which calls are still waiting

\* One leveled call followed through the facade and the sink for what
\* becomes of its details argument.
VARIABLES
    dcall,          \* the call: its argument, where it stands, its entry
    dsink,          \* the details of the records of the object store
    dread,          \* the getAllLogs call that was made last
    dpend,          \* the sink operations of the facade that are in flight,
                    \* in call order
    clean           \* a value, sanitizeDetails of it, and of that result

\* One IndexedDBLogStorage instance and the opening of its database.
VARIABLES
    env,            \* where the instance was constructed; "none" before
    dbPromise,      \* IndexedDBLogStorage.dbPromise: 0 for null, else the
                    \* number of the promise it holds
    promises,       \* the promises initDatabase has created, each "pending",
                    \* "fulfilled" or "rejected"
    opens,          \* the number of calls of window.indexedDB.open
    sops            \* the storage operations called, in call order

\* The collector facade (src/lib/logging/logger.ts).
VARIABLES
    hasWindow,      \* typeof window !== 'undefined'
    envUrl,         \* process.env.NEXT_PUBLIC_CLM_URL at present
    clm,            \* the Logger instance: isClmConfigured, clmUrl, and the
                    \* value the variable had when it was constructed
    ccalls,         \* the leveled calls in flight, in call order
    cdone,          \* the leveled call that completed last
    cn              \* the number of leveled calls so far

\* The HTTP boundary: the token endpoint (src/unnamed/part_000) and the
\* clients of the agent API and of the token endpoint (part_003, part_004).
VARIABLES
    request,        \* the last request the token endpoint answered
    response,       \* its response
    acall,          \* the last client call, with what fetch gave it and how
                    \* it ended
    ctl             \* the ConversationController component
                    \* (src/components/ConversationController.tsx): its
                    \* state, its LiveKit room and its requests in flight

facadeVars == <<listeners, db, uuids, clock, ops, calls, last, iter, trace, handles, unsubscribed, regBefore, hooks, storage>>
detailVars == <<dcall, dsink, dread, dpend, clean>>
openVars == <<env, dbPromise, promises, opens, sops>>
clmVars == <<hasWindow, envUrl, clm, ccalls, cdone, cn>>
apiVars == <<request, response, acall, ctl>>

\* The variables a step of the facade leaves alone.
beside == <<detailVars, openVars, clmVars, apiVars>>

vars == <<facadeVars, detailVars, openVars, clmVars, apiVars>>

Range(s) == {s[i] : i \in 1..Len(s)}

NoEntry == [id |-> [k |-> "none", n |-> 0], timestamp |-> 0, type |-> "none"]
NoIter == [call |-> 0, arr |-> <<>>, len |-> 0, idx |-> 0]
NoTrace == [call |-> 0, notifs |-> <<>>]
NoCall == [id |-> 0, kind |-> "none", type |-> "none", ts |-> 0, phase |-> "done",
           sink |-> "pending", outcome |-> "pending", afterClear |-> FALSE,
           prevTs |-> -1, hook |-> 0, entry |-> NoEntry, list |-> <<>>, num |-> 0]


\* What crypto.randomUUID() may return next: an identifier never returned
\* before, falling anywhere among those returned so far (one identifier
\* stands for each place it can take in their order).
FreshUuids ==
    LET U == uuids \cup {0, KeyTop}
        Gaps == {g \in U \X U : g[1] < g[2] /\ \A m \in U : ~(g[1] < m /\ m < g[2])}
    IN  {(g[1] + g[2]) \div 2 : g \in Gaps} \ U

----------------------------------------------------------------------------
(* The subscriber list. *)

\* A plausible slip: registering at the front of the array.
subscribe_unshift(ls, l) == <<l>> \o ls

\* this.listeners.push(listener)
subscribe(ls, l) == Append(ls, l)

\* this.listeners = this.listeners.filter(l => l !== listener)
unsubscribe(ls, l) == SelectSeq(ls, LAMBDA x : x # l)

----------------------------------------------------------------------------
(* The sink: IndexedDBLogStorage over one object store keyed by id. *)

\* A sink that drops the timestamp of the candidate entry.
store_unstamped(d, ts, type, uuid) ==
    LET e == [id |-> [k |-> "uuid", n |-> uuid], timestamp |-> 0, type |-> type]
    IN  [db |-> d \cup {e}, entry |-> e]

\* store: { ...entry, id: crypto.randomUUID() }, then store.add(logEntry)
store(d, ts, type, uuid) ==
    LET e == [id |-> [k |-> "uuid", n |-> uuid], timestamp |-> ts, type |-> type]
    IN  [db |-> d \cup {e}, entry |-> e]

\* clear: store.clear()
clear(d) == {}

\* A transaction that writes waits for the transactions opened before it,
\* and those opened after it wait for it.
Writes(kind) == kind \in {"store", "clear"}

\* count: store.count()
count(d) == Cardinality(d)

\* The sink getInstance builds where there is no window: its store answers
\* with the entry under the id 'server-' + Date.now(), now being the time
\* it was called, and keeps nothing; its reads answer [] and 0.
store_noop(d, ts, type, now) ==
    [db |-> d, entry |-> [id |-> [k |-> "server", n |-> now], timestamp |-> ts, type |-> type]]

\* getInstance, win telling whether there is a window: the sink is the
\* no-op sink without one and a new IndexedDBLogStorage with one.  Of a
\* sink the facade no longer holds are kept its kind, its records and the
\* calls still waiting on it.
getInstance(win) == [kind |-> IF win THEN "database" ELSE "noop", olds |-> <<>>]

\* The sinks callers pass to setStorage: one that keeps its records in
\* memory, empty when passed, and one like the no-op sink.
CustomSinks == {"memory", "noop"}

\* A cursor walked 'next': oldest first.
CursorNextBefore(a, b) ==
    \/ a.timestamp < b.timestamp
    \/ a.timestamp = b.timestamp /\ a.id.n < b.id.n

\* getByType without its sort: the records as index.getAll yields them.
ByKeyBefore(a, b) == a.id.n < b.id.n

\* The cursor order of getAll: index('timestamp') walked 'prev', that is by
\* timestamp descending and, among equal timestamps, by primary key descending.
CursorPrevBefore(a, b) ==
    \/ a.timestamp > b.timestamp
    \/ a.timestamp = b.timestamp /\ a.id.n > b.id.n

\* The order of getByType: index('type').getAll(type) yields the records of
\* one type by primary key ascending; the stable sort then orders them by
\* timestamp descending.
ByTypeBefore(a, b) ==
    \/ a.timestamp > b.timestamp
    \/ a.timestamp = b.timestamp /\ a.id.n < b.id.n

RECURSIVE SortCursorPrev(_)
SortCursorPrev(S) ==
    IF S = {} THEN <<>>
    ELSE LET first == CHOOSE a \in S : \A b \in S \ {a} : CursorPrevBefore(a, b)
         IN  <<first>> \o SortCursorPrev(S \ {first})

RECURSIVE SortByType(_)
SortByType(S) ==
    IF S = {} THEN <<>>
    ELSE LET first == CHOOSE a \in S : \A b \in S \ {a} : ByTypeBefore(a, b)
         IN  <<first>> \o SortByType(S \ {first})

\* getAll
getAll(d) == SortCursorPrev(d)

\* getByType
getByType(d, type) == SortByType({e \in d : e.type = type})

----------------------------------------------------------------------------
(* The useLogger hook (src/hooks/useLogger.ts): its state, its callback. *)

\* A hook is known by the callback its effect registered.  Besides logs and
\* loading it is noted: for each entry of logs the call whose event brought
\* it (0 for an entry that was loaded); how the initial load ended and the
\* list it left; whether the callback ran after the cleanup; the call whose
\* clear event it was handed last (0 before any).
NoHook == [state |-> "none", logs |-> <<>>, from |-> <<>>, loading |-> FALSE,
           load |-> "none", loaded |-> <<>>, late |-> FALSE, cleared |-> 0]

IsHook(l) == l \in DOMAIN hooks
Mounted == {l \in DOMAIN hooks : hooks[l].state = "mounted"}

\* useState([]), useState(true), and setLoading(true) in loadLogs.
useLogger == [NoHook EXCEPT !.state = "mounted", !.loading = TRUE]

\* A callback that puts the new entry behind the entries held.
hookCallback_append(hk, ev, e, id) ==
    IF hk.state # "mounted" THEN [hk EXCEPT !.late = TRUE]
    ELSE IF ev = "add"
    THEN [hk EXCEPT !.logs = @ \o <<e>>, !.from = @ \o <<id>>]
    ELSE [hk EXCEPT !.logs = <<>>, !.from = <<>>, !.cleared = id]

\* The subscription callback, handed event ev with entry e by call id:
\* setLogs(prev => [entry, ...prev]) on add, setLogs([]) on clear.  React
\* drops the state update of a component that is no longer mounted.
hookCallback(hk, ev, e, id) ==
    IF hk.state # "mounted" THEN [hk EXCEPT !.late = TRUE]
    ELSE IF ev = "add"
    THEN [hk EXCEPT !.logs = <<e>> \o @, !.from = <<id>> \o @]
    ELSE [hk EXCEPT !.logs = <<>>, !.from = <<>>, !.cleared = id]

\* loadLogs without its finally block: setLoading(false) only after
\* setLogs.
loadLogs_nofinally(hk, c) ==
    IF hk.state # "mounted" THEN hk
    ELSE IF c.outcome = "rejected" \/ c.sink # "ok"
    THEN [hk EXCEPT !.logs = <<>>, !.from = <<>>, !.load = "failed", !.loaded = <<>>]
    ELSE [hk EXCEPT !.logs = c.list, !.from = [i \in 1..Len(c.list) |-> 0],
                    !.loading = FALSE, !.load = "read", !.loaded = c.list]

\* loadLogs after its await, c being the getAllLogs call as it ended:
\* setLogs(allLogs), or console.error from the catch block, then
\* setLoading(false).
loadLogs(hk, c) ==
    IF hk.state # "mounted" THEN hk
    ELSE IF c.outcome = "rejected"
    THEN [hk EXCEPT !.loading = FALSE, !.load = "threw", !.loaded = hk.logs]
    ELSE [hk EXCEPT !.logs = c.list, !.from = [i \in 1..Len(c.list) |-> 0],
                    !.loading = FALSE,
                    !.load = IF c.sink = "ok" THEN "read" ELSE "failed",
                    !.loaded = c.list]

\* The cleanup of the effect, l being the callback: unsubscribe().  For a
\* callback that belongs to no hook there is nothing else to do.
cleanup(hs, l) ==
    IF l \in DOMAIN hs /\ hs[l].state = "mounted"
    THEN [hs EXCEPT ![l].state = "unmounted"]
    ELSE hs

----------------------------------------------------------------------------
(* Calls of the facade. *)

Idle == iter.call = 0

Pos(id) == CHOOSE k \in 1..Len(calls) : calls[k].id = id
InFlight(id) == \E k \in 1..Len(calls) : calls[k].id = id
Pending == {calls[k].id : k \in 1..Len(calls)}
Without(id) == SelectSeq(calls, LAMBDA c : c.id # id)

\* The sink call id waits on: 0 for the sink the facade holds, else the
\* place of the sink among those it held before.
SinkOf(id) ==
    IF \E k \in 1..Len(storage.olds) : id \in storage.olds[k].ids
    THEN CHOOSE k \in 1..Len(storage.olds) : id \in storage.olds[k].ids
    ELSE 0

KindOf(id) == IF SinkOf(id) = 0 THEN storage.kind ELSE storage.olds[SinkOf(id)].kind
RecordsOf(id) == IF SinkOf(id) = 0 THEN db ELSE storage.olds[SinkOf(id)].db

\* The sink of call id has answered it and holds the records d.  A sink
\* the facade no longer holds is forgotten with its last waiting call.
Served(id, d) ==
    IF SinkOf(id) = 0
    THEN /\ db' = d
         /\ storage' = storage
    ELSE /\ db' = db
         /\ LET k == SinkOf(id)
                o == [storage.olds[k] EXCEPT !.db = d, !.ids = @ \ {id}]
            IN  storage' = [storage EXCEPT !.olds =
                              IF o.ids = {}
                              THEN SubSeq(@, 1, k - 1) \o SubSeq(@, k + 1, Len(@))
                              ELSE [@ EXCEPT ![k] = o]]

\* How far Date.now() may have moved on between two reads in one block:
\* not at all, or by one tick, a tick being an event of the run.
Drift(spent) == IF ops + spent < MaxOps THEN {0, 1} ELSE {0}

\* A method is called: it runs up to its await on the sink.  A getLogsCount
\* call notes whether it directly follows a clearLogs call whose sink
\* operation succeeded, with no other call in flight.  A leveled call issued
\* once the leveled call before it has resolved, with no other call in
\* flight, notes the timestamp of the entry that call resolved with.  The
\* store of the no-op sink reads the clock when it is called, after the
\* candidate entry has read it.  The run is made of most events at most.
IssueWithin(kind, type, most) ==
    /\ Idle
    /\ ops < most
    /\ \E dt \in (IF kind = "log" /\ storage.kind = "noop" THEN Drift(1) ELSE {0}) :
          /\ ops' = ops + 1 + dt
          /\ clock' = clock + dt
          /\ calls' = Append(calls,
                [NoCall EXCEPT !.id = ops + 1, !.kind = kind, !.type = type, !.ts = clock,
                               !.phase = "sink",
                               !.afterClear = /\ kind = "count"
                                              /\ calls = <<>>
                                              /\ last.kind = "clear"
                                              /\ last.sink = "ok",
                               !.prevTs = IF /\ kind = "log"
                                             /\ calls = <<>>
                                             /\ last.kind = "log"
                                             /\ last.outcome = "resolved"
                                          THEN last.entry.timestamp
                                          ELSE -1,
                               !.num = IF kind = "log" /\ storage.kind = "noop"
                                       THEN clock + dt ELSE 0])
    /\ last' = NoCall
    /\ trace' = NoTrace
    /\ UNCHANGED <<listeners, db, uuids, iter, handles, unsubscribed, regBefore, hooks, storage>>

IssueFacade(kind, type) == IssueWithin(kind, type, MaxOps)

\* The same call on a facade whose sink is left out of the picture.
Issue(kind, type) ==
    /\ IssueFacade(kind, type)
    /\ UNCHANGED beside

\* log, up to its await: the candidate entry takes Date.now() and
\* storage.store is called.
log(type) == Issue("log", type)

info == log("info")
error == log("error")
success == log("success")
warn == log("warning")

\* getAllLogs, getLogsByType, clearLogs and getLogsCount up to their await.
getAllLogs == Issue("getAll", "none")
getLogsByType(type) == Issue("getByType", type)
clearLogs == Issue("clear", "none")
getLogsCount == Issue("count", "none")

\* setStorage(storage), the sink passed being of kind k and empty: the
\* facade holds it from now on; the calls waiting on the sink it held go on
\* waiting on that one.
setStorage(k) ==
    /\ Idle
    /\ ops < MaxOps
    /\ ops' = ops + 1
    /\ LET waiting == {id \in Pending : SinkOf(id) = 0 /\ calls[Pos(id)].phase = "sink"}
       IN  storage' = [kind |-> k,
                       olds |-> IF waiting = {} THEN storage.olds
                                ELSE Append(storage.olds,
                                            [kind |-> storage.kind, db |-> db, ids |-> waiting])]
    /\ db' = {}
    /\ last' = NoCall
    /\ trace' = NoTrace
    /\ UNCHANGED <<listeners, uuids, clock, calls, iter, handles, unsubscribed, regBefore, hooks>>
    /\ UNCHANGED beside

\* The call record once its method has returned or thrown.
Finish(c, outcome) == [c EXCEPT !.phase = "done", !.outcome = outcome]

\* The calls in flight and the last completed call, c being the new record
\* of the call it describes.
Settle(c) ==
    IF c.phase = "done"
    THEN /\ calls' = Without(c.id)
         /\ last' = c
    ELSE /\ calls' = [calls EXCEPT ![Pos(c.id)] = c]
         /\ last' = last

\* notifyListeners(event) called from block blk of call c, the subscriber
\* list being ls: listeners.forEach fixes the range of the walk when it
\* starts.  Later registrations are pushed behind that range and
\* unsubscribe builds a new array, so the walk reads the array as it was.
\* With nobody registered forEach returns at once and so does the method.
notifyListeners(c, ls, blk) ==
    IF Len(ls) = 0 THEN Finish(c, "resolved") ELSE [c EXCEPT !.phase = blk]

\* What is kept of one notifyListeners call: the event; the subscriber
\* list, the registration order and the callbacks already unsubscribed when
\* it started; the listeners called so far, in order; the subscriber list
\* after the last of them ran, and whether any of them changed that list.
Notif(ev, e, ls, ord, stale) ==
    [ev |-> ev, entry |-> e, snap |-> ls, order |-> ord, stale |-> stale,
     invoked |-> <<>>, after |-> ls, changed |-> FALSE]

Walk(id, ls) ==
    IF Len(ls) = 0 THEN NoIter
    ELSE [call |-> id, arr |-> ls, len |-> Len(ls), idx |-> 1]

\* The catch block of log: a temporary entry whose id is 'temp-' +
\* Date.now(), read at time t, and whose timestamp is Date.now(), read
\* again at time u; then notifyListeners, then return tempEntry.
logCatch(c, ls, t, u) ==
    LET e == [id |-> [k |-> "temp", n |-> t], timestamp |-> u, type |-> c.type]
    IN  notifyListeners([c EXCEPT !.entry = e], ls, "catch")

\* The try block of log after the await: notifyListeners with the stored
\* entry, then return storedEntry.
logTry(c, ls, e) ==
    notifyListeners([c EXCEPT !.sink = "ok", !.entry = e], ls, "try")

\* log after its await: the store promise of the call has settled.
\* Fulfilled: the sink has added the record under a fresh id, or the no-op
\* sink has answered, which it always does, and the try block goes on.
\* Rejected: nothing was added and the catch block runs.
log_resumes(id, ok, uuid) ==
    /\ Idle
    /\ InFlight(id)
    /\ LET c == calls[Pos(id)]
           d == RecordsOf(id)
           noop == KindOf(id) = "noop"
       IN  /\ c.kind = "log" /\ c.phase = "sink"
           /\ IF ok
              THEN /\ IF noop THEN uuid = 0 ELSE uuid \in FreshUuids
                   /\ uuids' = IF noop THEN uuids ELSE uuids \cup {uuid}
                   /\ LET r  == IF noop THEN store_noop(d, c.ts, c.type, c.num)
                                ELSE store(d, c.ts, c.type, uuid)
                          c1 == logTry(c, listeners, r.entry)
                      IN  /\ Served(id, r.db)
                          /\ Settle(c1)
                          /\ trace' = [call |-> id,
                                       notifs |-> <<Notif("add", c1.entry, listeners,
                                                         regBefore, unsubscribed)>>]
                   /\ UNCHANGED <<clock, ops>>
              ELSE /\ ~noop
                   /\ uuid = 0
                   /\ uuids' = uuids
                   /\ Served(id, d)
                   /\ \E dt \in Drift(0) :
                         /\ clock' = clock + dt
                         /\ ops' = ops + dt
                         /\ LET c1 == logCatch([c EXCEPT !.sink = "fail"], listeners,
                                               clock, clock + dt)
                            IN  /\ Settle(c1)
                                /\ trace' = [call |-> id,
                                             notifs |-> <<Notif("add", c1.entry, listeners,
                                                               regBefore, unsubscribed)>>]
    /\ iter' = Walk(id, listeners)
    /\ UNCHANGED <<listeners, handles, unsubscribed, regBefore, hooks>>

\* The store promise of a log call settles.
log_settle(id, ok, uuid) ==
    /\ log_resumes(id, ok, uuid)
    /\ UNCHANGED beside

\* A variant without the catch block: the sink's fault reaches the caller.
getAllLogs_return_nocatch(c, ok, d) ==
    IF ok THEN Finish([c EXCEPT !.sink = "ok", !.list = getAll(d)], "resolved")
    ELSE Finish([c EXCEPT !.sink = "fail"], "rejected")

\* getAllLogs after its await: return the sink's list, or [] from the catch.
getAllLogs_return(c, ok, d) ==
    IF ok THEN Finish([c EXCEPT !.sink = "ok", !.list = getAll(d)], "resolved")
    ELSE Finish([c EXCEPT !.sink = "fail", !.list = <<>>], "resolved")

\* getLogsByType after its await.
getLogsByType_return(c, ok, d) ==
    IF ok THEN Finish([c EXCEPT !.sink = "ok", !.list = getByType(d, c.type)], "resolved")
    ELSE Finish([c EXCEPT !.sink = "fail", !.list = <<>>], "resolved")

\* getLogsCount after its await: the sink's count, or 0 from the catch.
getLogsCount_return(c, ok, d) ==
    IF ok THEN Finish([c EXCEPT !.sink = "ok", !.num = count(d)], "resolved")
    ELSE Finish([c EXCEPT !.sink = "fail", !.num = 0], "resolved")

\* A read (getAll, getByType, count) after its await: its promise has
\* settled and the method returns.  The getAllLogs call of a hook returns
\* to loadLogs, which is itself waiting on it and goes on later.
read_resumes(id, ok) ==
    /\ Idle
    /\ InFlight(id)
    /\ LET c == calls[Pos(id)]
           d == RecordsOf(id)
       IN  /\ c.kind \in {"getAll", "getByType", "count"}
           /\ c.phase = "sink"
           /\ KindOf(id) = "noop" => ok
           /\ Served(id, d)
           /\ LET c1 == CASE c.kind = "getAll" -> getAllLogs_return(c, ok, d)
                           [] c.kind = "getByType" -> getLogsByType_return(c, ok, d)
                           [] OTHER -> getLogsCount_return(c, ok, d)
              IN  IF c.hook = 0 THEN Settle(c1)
                  ELSE /\ calls' = [calls EXCEPT ![Pos(id)] = [c1 EXCEPT !.phase = "loadLogs"]]
                       /\ last' = c1
    /\ UNCHANGED <<listeners, uuids, clock, ops, iter, trace, handles, unsubscribed, regBefore, hooks>>

\* The promise of a read settles.
read_settle(id, ok) ==
    /\ read_resumes(id, ok)
    /\ UNCHANGED beside

\* loadLogs of a hook goes on after its await, the getAllLogs call id
\* having returned: setLogs, setLoading.
loadLogs_resume(id) ==
    /\ Idle
    /\ InFlight(id)
    /\ calls[Pos(id)].phase = "loadLogs"
    /\ hooks' = [hooks EXCEPT ![calls[Pos(id)].hook] = loadLogs(@, calls[Pos(id)])]
    /\ calls' = Without(id)
    /\ UNCHANGED <<listeners, db, uuids, clock, ops, last, iter, trace, handles, unsubscribed, regBefore, storage>>
    /\ UNCHANGED beside

\* clearLogs after its await.  Fulfilled: the store is empty and the clear
\* event is notified.  Rejected: the catch block writes to the console and
\* the method returns.
clearLogs_return(c, ok, ls) ==
    IF ok THEN notifyListeners([c EXCEPT !.sink = "ok"], ls, "try")
    ELSE Finish([c EXCEPT !.sink = "fail"], "resolved")

clear_settle(id, ok) ==
    /\ Idle
    /\ InFlight(id)
    /\ LET c == calls[Pos(id)]
       IN  /\ c.kind = "clear" /\ c.phase = "sink"
           /\ KindOf(id) = "noop" => ok
           /\ Settle(clearLogs_return(c, ok, listeners))
    /\ Served(id, IF ok THEN clear(RecordsOf(id)) ELSE RecordsOf(id))
    /\ uuids' = uuids
    /\ iter' = IF ok THEN Walk(id, listeners) ELSE NoIter
    /\ trace' = [call |-> id,
                 notifs |-> IF ok
                            THEN <<Notif("clear", NoEntry, listeners, regBefore, unsubscribed)>>
                            ELSE <<>>]
    /\ UNCHANGED <<listeners, clock, ops, handles, unsubscribed, regBefore, hooks>>
    /\ UNCHANGED beside

----------------------------------------------------------------------------
(* Listener callbacks. *)

\* The callbacks that can be registered now: one that was registered
\* before, whether or not it is at present, or the next new one.  The
\* callback of a hook is a closure of its effect, which nobody else can
\* register.
Registrable ==
    {l \in Listeners :
        /\ ops < MaxOps
        /\ ~IsHook(l)
        /\ l \in handles \/ l = Cardinality(handles) + 1}

\* What a callback may do with the facade while it runs: nothing, call an
\* unsubscribe function that exists, or register a callback.
Effects ==
    {[op |-> "none", l |-> 0]}
      \cup {[op |-> "unsub", l |-> x] : x \in handles}
      \cup {[op |-> "sub", l |-> y] : y \in Registrable}

Apply(ls, eff) ==
    CASE eff.op = "unsub" -> unsubscribe(ls, eff.l)
      [] eff.op = "sub" -> subscribe(ls, eff.l)
      [] OTHER -> ls

ApplyHandles(h, eff) == IF eff.op = "sub" THEN h \cup {eff.l} ELSE h

ApplyOrder(ord, ls, eff) ==
    CASE eff.op = "unsub" -> {p \in ord : p[1] # eff.l /\ p[2] # eff.l}
      [] eff.op = "sub" -> ord \cup {<<x, eff.l>> : x \in Range(ls)}
      [] OTHER -> ord

ApplyUnsubscribed(u, eff) ==
    CASE eff.op = "unsub" -> u \cup {eff.l}
      [] eff.op = "sub" -> u \ {eff.l}
      [] OTHER -> u

\* The call record after a listener has thrown out of forEach, ls being
\* the subscriber list at that moment.  In the try block of log the
\* exception lands in log's catch block, which builds a temporary entry,
\* reading the clock at times t and u, and notifies again; thrown from
\* that second notification it leaves log, whose promise rejects.  In
\* clearLogs the catch block swallows it.
listenerThrew(c, ls, t, u) ==
    CASE c.kind = "log" /\ c.phase = "try" -> logCatch(c, ls, t, u)
      [] c.kind = "log" /\ c.phase = "catch" -> Finish(c, "rejected")
      [] OTHER -> Finish(c, "resolved")

\* forEach calls the next listener of its range with the event.  The
\* listener returns or throws; nothing catches around a single listener.
\* The callback of a useLogger hook updates the hook's state and returns.
\* An unsubscribe function a listener calls may be the cleanup of a hook.
InvokeListener(throws, eff) ==
    /\ ~Idle
    /\ eff \in Effects
    /\ IsHook(iter.arr[iter.idx]) => (~throws /\ eff.op = "none")
    /\ LET id  == iter.call
           c   == calls[Pos(id)]
           l   == iter.arr[iter.idx]
           ev  == trace.notifs[Len(trace.notifs)]
           h1  == IF IsHook(l) THEN [hooks EXCEPT ![l] = hookCallback(@, ev.ev, ev.entry, id)]
                  ELSE hooks
           ls1 == Apply(listeners, eff)
           u1  == ApplyUnsubscribed(unsubscribed, eff)
           o1  == ApplyOrder(regBefore, listeners, eff)
           t1  == [trace EXCEPT !.notifs[Len(trace.notifs)] =
                      [@ EXCEPT !.invoked = Append(@, l), !.after = ls1,
                                !.changed = @ \/ eff.op # "none"]]
           retry == c.kind = "log" /\ c.phase = "try"
           spent == IF eff.op = "sub" THEN 1 ELSE 0
       IN  /\ listeners' = ls1
           /\ handles' = ApplyHandles(handles, eff)
           /\ unsubscribed' = u1
           /\ regBefore' = o1
           /\ hooks' = IF eff.op = "unsub" THEN cleanup(h1, eff.l) ELSE h1
           /\ IF throws
              THEN \E dt \in (IF retry THEN Drift(spent) ELSE {0}) :
                   LET c2 == listenerThrew(c, ls1, clock, clock + dt)
                   IN  /\ clock' = clock + dt
                       /\ ops' = ops + spent + dt
                       /\ Settle(c2)
                       /\ iter' = IF retry THEN Walk(id, ls1) ELSE NoIter
                       /\ trace' = IF retry
                                    THEN [t1 EXCEPT !.notifs =
                                            Append(@, Notif("add", c2.entry, ls1, o1, u1))]
                                    ELSE t1
              ELSE /\ clock' = clock
                   /\ ops' = ops + spent
                   /\ IF iter.idx = iter.len
                      THEN /\ Settle(Finish(c, "resolved"))
                           /\ iter' = NoIter
                      ELSE /\ UNCHANGED <<calls, last>>
                           /\ iter' = [iter EXCEPT !.idx = @ + 1]
                   /\ trace' = t1
    /\ UNCHANGED <<db, uuids, storage>>
    /\ UNCHANGED beside

\* subscribe(listener), called by application code
Subscribe(l) ==
    /\ Idle
    /\ l \in Registrable
    /\ ops' = ops + 1
    /\ listeners' = subscribe(listeners, l)
    /\ handles' = handles \cup {l}
    /\ unsubscribed' = unsubscribed \ {l}
    /\ regBefore' = regBefore \cup {<<x, l>> : x \in Range(listeners)}
    /\ last' = NoCall
    /\ trace' = NoTrace
    /\ UNCHANGED <<db, uuids, clock, calls, iter, hooks, storage>>
    /\ UNCHANGED beside

\* the function subscribe returned, called by application code, or by
\* React as the cleanup of a hook's effect
Unsubscribe(l) ==
    /\ Idle
    /\ l \in handles
    /\ listeners' = unsubscribe(listeners, l)
    /\ unsubscribed' = unsubscribed \cup {l}
    /\ regBefore' = {p \in regBefore : p[1] # l /\ p[2] # l}
    /\ hooks' = cleanup(hooks, l)
    /\ last' = NoCall
    /\ trace' = NoTrace
    /\ UNCHANGED <<db, uuids, clock, ops, calls, iter, handles, storage>>
    /\ UNCHANGED beside

\* The getAllLogs call of the hook with callback h.
LoadId(h) == MaxOps + h

\* The component using useLogger is mounted, once in a run, and its effect
\* runs: loadLogs() goes up to the await of getAllLogs, then the callback
\* is subscribed.
useEffect ==
    /\ Idle
    /\ DOMAIN hooks = {}
    /\ LET h == Cardinality(handles) + 1
       IN  /\ h \in Listeners
           /\ calls' = Append(calls,
                 [NoCall EXCEPT !.id = LoadId(h), !.kind = "getAll", !.ts = clock,
                                !.phase = "sink", !.hook = h])
           /\ listeners' = subscribe(listeners, h)
           /\ handles' = handles \cup {h}
           /\ unsubscribed' = unsubscribed \ {h}
           /\ regBefore' = regBefore \cup {<<x, h>> : x \in Range(listeners)}
           /\ hooks' = (h :> useLogger)
    /\ last' = NoCall
    /\ trace' = NoTrace
    /\ UNCHANGED <<db, uuids, clock, ops, iter, storage>>
    /\ UNCHANGED beside

\* The component is unmounted: React runs the cleanup of the effect.
useEffect_cleanup(h) ==
    /\ h \in Mounted
    /\ Unsubscribe(h)

\* forEach reaches the callback of a hook.
hookInvoked ==
    /\ ~Idle
    /\ IsHook(iter.arr[iter.idx])
    /\ InvokeListener(FALSE, [op |-> "none", l |-> 0])

\* forEach reaches another listener, which returns or throws, and may
\* first have a component using the hook unmounted.
plainInvoked(throws, eff) ==
    /\ ~Idle
    /\ ~IsHook(iter.arr[iter.idx])
    /\ eff.op = "none" \/ (eff.op = "unsub" /\ eff.l \in Mounted)
    /\ InvokeListener(throws, eff)

\* Time passes, in a run made of most events at most.
TickWithin(most) ==
    /\ ops < most
    /\ ops' = ops + 1
    /\ clock' = clock + 1
    /\ last' = IF Idle THEN NoCall ELSE last
    /\ trace' = IF Idle THEN NoTrace ELSE trace
    /\ UNCHANGED <<listeners, db, uuids, calls, iter, handles, unsubscribed, regBefore, hooks, storage>>
    /\ UNCHANGED beside

Tick == TickWithin(MaxOps)

----------------------------------------------------------------------------
(* The details of an entry: JavaScript values, JSON text, sanitizeDetails. *)

\* The longest array among the details passed.
MaxLen == 2

\* A JavaScript value: its type t; n for a number or a boolean (0, 1); s for
\* a string, or the message of an Error; for an array its elements kv; for
\* an object its own enumerable keys, in insertion order, with their values
\* kv, and its class cls ("Object", "Error", or "null" for an object without
\* prototype).  "ref" stands for a reference back to the object holding it.
JsValue(t, n, str, keys, kv, cls) ==
    [t |-> t, n |-> n, s |-> str, keys |-> keys, kv |-> kv, cls |-> cls]

Undefined == JsValue("undefined", 0, "", <<>>, <<>>, "")
Null == JsValue("null", 0, "", <<>>, <<>>, "")
Bool(b) == JsValue("bool", b, "", <<>>, <<>>, "")
Num(n) == JsValue("num", n, "", <<>>, <<>>, "")
Str(str) == JsValue("str", 0, str, <<>>, <<>>, "")
Arr(kv) == JsValue("arr", 0, "", <<>>, kv, "Array")
Obj(keys, kv) == JsValue("obj", 0, "", keys, kv, "Object")
Err(msg, keys, kv) == JsValue("obj", 0, msg, keys, kv, "Error")
Bare(keys, kv) == JsValue("obj", 0, "", keys, kv, "null")
Fn == JsValue("fn", 0, "", <<>>, <<>>, "Function")
Ref == JsValue("ref", 0, "", <<>>, <<>>, "")

\* if (details): undefined, null, false, 0 and "" are falsy.
Truthy(v) ==
    CASE v.t \in {"undefined", "null"} -> FALSE
      [] v.t = "bool" -> v.n = 1
      [] v.t = "num" -> v.n # 0
      [] v.t = "str" -> v.s # ""
      [] OTHER -> TRUE

\* One token of a JSON text.
Tok(k, n, str) == [k |-> k, n |-> n, s |-> str]
Punct(k) == Tok(k, 0, "")

RECURSIVE Joined(_)
\* The texts of the members of an array or object, separated by commas.
Joined(texts) ==
    IF Len(texts) = 0 THEN <<>>
    ELSE IF Len(texts) = 1 THEN texts[1]
    ELSE texts[1] \o <<Punct(",")>> \o Joined(Tail(texts))

RECURSIVE Serialize(_)
\* JSON.stringify(v): a text; or undefined, for undefined and for a
\* function; or a TypeError, for a structure that refers to itself.  In an
\* array undefined and functions are written null, in an object a member
\* with such a value is left out.
Serialize(v) ==
    LET text(toks) == [st |-> "text", toks |-> toks]
        parts == [i \in 1..Len(v.kv) |-> Serialize(v.kv[i])]
        thrown == \E i \in 1..Len(v.kv) : parts[i].st = "throw"
        kept == SelectSeq([i \in 1..Len(v.kv) |-> i], LAMBDA i : parts[i].st = "text")
    IN  CASE v.t \in {"undefined", "fn"} -> [st |-> "undefined", toks |-> <<>>]
          [] v.t = "ref" -> [st |-> "throw", toks |-> <<>>]
          [] v.t = "null" -> text(<<Punct("null")>>)
          [] v.t = "bool" -> text(<<Punct(IF v.n = 1 THEN "true" ELSE "false")>>)
          [] v.t = "num" -> text(<<Tok("num", v.n, "")>>)
          [] v.t = "str" -> text(<<Tok("str", 0, v.s)>>)
          [] v.t = "arr" ->
                IF thrown THEN [st |-> "throw", toks |-> <<>>]
                ELSE text(<<Punct("[")>>
                          \o Joined([i \in 1..Len(v.kv) |->
                                       IF parts[i].st = "text" THEN parts[i].toks
                                       ELSE <<Punct("null")>>])
                          \o <<Punct("]")>>)
          [] OTHER ->
                IF thrown THEN [st |-> "throw", toks |-> <<>>]
                ELSE text(<<Punct("{")>>
                          \o Joined([j \in 1..Len(kept) |->
                                       <<Tok("str", 0, v.keys[kept[j]]), Punct(":")>>
                                         \o parts[kept[j]].toks])
                          \o <<Punct("}")>>)

\* JSON.stringify
JSONstringify(v) == Serialize(v)

\* A parser that builds an array back to front.
Collect_front(acc, v) == <<v>> \o acc

\* The next element read is the next element of the array being built.
Collect(acc, v) == Append(acc, v)

NoParse == [ok |-> FALSE, val |-> Undefined, rest |-> <<>>]
Parsed(v, rest) == [ok |-> TRUE, val |-> v, rest |-> rest]

RECURSIVE ParseValue(_)
RECURSIVE ParseElements(_, _)
RECURSIVE ParseMembers(_, _, _)

\* One JSON value at the head of the tokens, and the tokens after it.
ParseValue(toks) ==
    IF Len(toks) = 0 THEN NoParse
    ELSE LET h == Head(toks)
             r == Tail(toks)
         IN  CASE h.k = "null" -> Parsed(Null, r)
               [] h.k = "true" -> Parsed(Bool(1), r)
               [] h.k = "false" -> Parsed(Bool(0), r)
               [] h.k = "num" -> Parsed(Num(h.n), r)
               [] h.k = "str" -> Parsed(Str(h.s), r)
               [] h.k = "[" ->
                     IF Len(r) > 0 /\ Head(r).k = "]" THEN Parsed(Arr(<<>>), Tail(r))
                     ELSE ParseElements(r, <<>>)
               [] h.k = "{" ->
                     IF Len(r) > 0 /\ Head(r).k = "}" THEN Parsed(Obj(<<>>, <<>>), Tail(r))
                     ELSE ParseMembers(r, <<>>, <<>>)
               [] OTHER -> NoParse

\* The elements of an array up to its closing bracket.
ParseElements(toks, acc) ==
    LET e == ParseValue(toks)
        acc1 == Collect(acc, e.val)
    IN  IF ~e.ok \/ Len(e.rest) = 0 THEN NoParse
        ELSE IF Head(e.rest).k = "," THEN ParseElements(Tail(e.rest), acc1)
        ELSE IF Head(e.rest).k = "]" THEN Parsed(Arr(acc1), Tail(e.rest))
        ELSE NoParse

\* The members of an object up to its closing brace.
ParseMembers(toks, keys, kv) ==
    IF Len(toks) < 3 \/ toks[1].k # "str" \/ toks[2].k # ":" THEN NoParse
    ELSE LET e == ParseValue(SubSeq(toks, 3, Len(toks)))
             keys1 == Append(keys, toks[1].s)
             kv1 == Append(kv, e.val)
         IN  IF ~e.ok \/ Len(e.rest) = 0 THEN NoParse
             ELSE IF Head(e.rest).k = "," THEN ParseMembers(Tail(e.rest), keys1, kv1)
             ELSE IF Head(e.rest).k = "}" THEN Parsed(Obj(keys1, kv1), Tail(e.rest))
             ELSE NoParse

\* What a call returns: a value, or an exception thrown.
Returned(v) == [threw |-> FALSE, val |-> v]
Thrown == [threw |-> TRUE, val |-> Undefined]

\* JSON.parse(text), text being what JSON.stringify returned.  undefined is
\* read as the text "undefined", which is a SyntaxError, and an exception
\* thrown by JSON.stringify leaves the expression before JSON.parse runs.
JSONparse(text) ==
    IF text.st # "text" THEN Thrown
    ELSE LET p == ParseValue(text.toks)
         IN  IF p.ok /\ Len(p.rest) = 0 THEN Returned(p.val) ELSE Thrown

RECURSIVE JoinText(_)
\* Array.prototype.join: the texts of the elements, separated by commas.
JoinText(texts) ==
    IF Len(texts) = 0 THEN ""
    ELSE IF Len(texts) = 1 THEN texts[1]
    ELSE texts[1] \o "," \o JoinText(Tail(texts))

RECURSIVE String(_)
\* String(details): "undefined", "null", the text of a boolean, a number
\* or a string, the source text of a function, "[object Object]" through
\* Object.prototype.toString and name: message through
\* Error.prototype.toString; an object without prototype has no toString
\* and the conversion throws a TypeError.  An array is converted through
\* Array.prototype.toString, which joins the conversions of its elements:
\* undefined and null are written as nothing, and so is an array met again
\* while it is being joined.
String(v) ==
    LET parts == [i \in 1..Len(v.kv) |->
                    IF v.kv[i].t \in {"undefined", "null", "ref"} THEN Returned(Str(""))
                    ELSE String(v.kv[i])]
    IN  CASE v.t = "undefined" -> Returned(Str("undefined"))
          [] v.t = "null" -> Returned(Str("null"))
          [] v.t = "bool" -> Returned(Str(IF v.n = 1 THEN "true" ELSE "false"))
          [] v.t = "num" -> Returned(Str(ToString(v.n)))
          [] v.t = "str" -> Returned(v)
          [] v.t = "fn" -> Returned(Str("function"))
          [] v.t = "arr" ->
                IF \E i \in 1..Len(v.kv) : parts[i].threw THEN Thrown
                ELSE Returned(Str(JoinText([i \in 1..Len(v.kv) |-> parts[i].val.s])))
          [] v.cls = "null" -> Thrown
          [] v.cls = "Error" -> Returned(Str("Error: message"))
          [] OTHER -> Returned(Str("[object Object]"))

\* sanitizeDetails, the same in both facades
sanitizeDetails(details) ==
    LET r == JSONparse(JSONstringify(details))
    IN  IF ~r.threw THEN r
        ELSE IF details.t = "obj" /\ details.cls = "Error"
             THEN Returned(Obj(<<"name", "message", "stack">>,
                               <<Str("Error"), Str(details.s), Str("stack")>>))
             ELSE String(details)

\* The details callers pass: undefined, null, booleans, numbers, strings,
\* functions, arrays and objects of those, objects that refer to
\* themselves (plain, Error, without prototype), arrays that hold
\* themselves or such an object.
Atoms == {Undefined, Null, Bool(0), Bool(1), Num(0), Num(1), Str(""), Str("a")}
Arrays == {Arr(kv) : kv \in UNION {[1..n -> Atoms \cup {Fn}] : n \in 0..MaxLen}}
Members == Atoms \cup {Fn, Arr(<<>>), Arr([i \in 1..(MaxLen + 1) |-> Num(i)])}
Objects ==
    {Obj(<<>>, <<>>)}
      \cup {Obj(<<"a">>, <<v>>) : v \in Members}
      \cup {Obj(<<"a", "b">>, <<v[1], v[2]>>) : v \in Members \X Members}
      \cup {Obj(<<"b", "a">>, <<v[1], v[2]>>) : v \in Members \X Members}
SelfReferring ==
    {Obj(<<"self">>, <<Ref>>), Obj(<<"a", "self">>, <<Num(1), Ref>>),
     Err("m", <<"self">>, <<Ref>>), Bare(<<"self">>, <<Ref>>),
     Arr(<<Ref>>), Arr(<<Num(1), Ref>>), Arr(<<Obj(<<"self">>, <<Ref>>)>>)}
Details ==
    Atoms \cup {Fn} \cup Arrays \cup Objects \cup SelfReferring
      \cup {Err("m", <<>>, <<>>), Bare(<<"a">>, <<Num(1)>>)}

RECURSIVE StructuredClone(_)
\* The copy the object store keeps of a value, and the copy a read returns:
\* member by member, a reference back to the holder copied as a reference
\* back to the copy; an object without prototype becomes a plain object;
\* an Error stays an Error with its name and message and loses its own
\* properties; a function cannot be cloned (DataCloneError).
StructuredClone(v) ==
    LET parts == [i \in 1..Len(v.kv) |-> StructuredClone(v.kv[i])]
        copies == [i \in 1..Len(v.kv) |-> parts[i].val]
    IN  CASE v.t = "fn" -> Thrown
          [] v.t = "arr" ->
                IF \E i \in 1..Len(v.kv) : parts[i].threw THEN Thrown
                ELSE Returned(Arr(copies))
          [] v.t = "obj" /\ v.cls = "Error" -> Returned(Err(v.s, <<>>, <<>>))
          [] v.t = "obj" ->
                IF \E i \in 1..Len(v.kv) : parts[i].threw THEN Thrown
                ELSE Returned(Obj(v.keys, copies))
          [] OTHER -> Returned(v)

NoDCall == [phase |-> "idle", arg |-> Undefined, cand |-> Undefined,
            path |-> "none", outcome |-> "pending", details |-> Undefined,
            kept |-> FALSE]
NoRead == [phase |-> "idle", after |-> FALSE, ok |-> FALSE, list |-> <<>>]
NoClean == [arg |-> Undefined, once |-> Returned(Undefined), twice |-> Returned(Undefined)]

\* The request of the operation of this kind in flight can be answered:
\* the engine runs the transactions in the order they were opened in, which
\* is the order of the calls, reads side by side.
Answerable(kind) ==
    \E i \in 1..Len(dpend) :
        /\ dpend[i] = kind
        /\ \A j \in 1..(i - 1) : ~(Writes(dpend[j]) \/ Writes(kind))

\* The operations in flight once the one of this kind has settled.
Answered(kind) == SelectSeq(dpend, LAMBDA k : k # kind)

\* The catch block of log: tempEntry.details = this.sanitizeDetails(details),
\* outside any try, then return tempEntry.
logCatch_details(c) ==
    LET r == sanitizeDetails(c.arg)
    IN  IF r.threw
        THEN [c EXCEPT !.phase = "done", !.outcome = "rejected"]
        ELSE [c EXCEPT !.phase = "done", !.outcome = "resolved", !.path = "temp",
                       !.details = r.val]

\* log(type, message, details) up to its await, the one leveled call of
\* the run: the candidate entry has
\* details: details ? this.sanitizeDetails(details) : undefined; an
\* exception of sanitizeDetails lands in the catch block.  A read still in
\* flight was called before this call.
log_details(d) ==
    /\ dcall.phase = "idle"
    /\ LET c == [NoDCall EXCEPT !.arg = d]
           r == IF Truthy(d) THEN sanitizeDetails(d) ELSE Returned(Undefined)
       IN  /\ dcall' = IF r.threw THEN logCatch_details(c)
                       ELSE [c EXCEPT !.phase = "sink", !.cand = r.val]
           /\ dpend' = IF r.threw THEN dpend ELSE Append(dpend, "store")
    /\ dread' = IF dread.phase = "await" THEN [dread EXCEPT !.after = FALSE] ELSE NoRead
    /\ UNCHANGED <<dsink, clean, facadeVars, apiVars, openVars, clmVars>>

\* The store promise settles.  The record added is a structured clone of
\* the candidate entry; the entry returned is the candidate with its id.
store_details(ok) ==
    /\ dcall.phase = "sink"
    /\ Answerable("store")
    /\ LET copy == StructuredClone(dcall.cand)
       IN  IF ok /\ ~copy.threw
           THEN /\ dsink' = Append(dsink, copy.val)
                /\ dcall' = [dcall EXCEPT !.phase = "done", !.outcome = "resolved",
                                          !.path = "stored", !.details = dcall.cand,
                                          !.kept = TRUE]
           ELSE /\ dsink' = dsink
                /\ dcall' = logCatch_details(dcall)
    /\ dpend' = Answered("store")
    /\ UNCHANGED <<dread, clean, facadeVars, apiVars, openVars, clmVars>>

\* getAllLogs up to `await this.storage.getAll()`.  The call notes whether
\* it is made after the call followed has returned, its record in the
\* store and no clear in flight.
getAllLogs_details ==
    /\ dread.phase # "await"
    /\ dread' = [NoRead EXCEPT !.phase = "await",
                               !.after = dcall.kept /\ "clear" \notin Range(dpend)]
    /\ dpend' = Append(dpend, "getAll")
    /\ UNCHANGED <<dcall, dsink, clean, facadeVars, apiVars, openVars, clmVars>>

\* The getAll promise settles and getAllLogs returns: the records of the
\* store, or [] from the catch block.
getAllLogs_details_resume(ok) ==
    /\ dread.phase = "await"
    /\ Answerable("getAll")
    /\ dread' = [dread EXCEPT
                    !.phase = "done", !.ok = ok,
                    !.list = IF ok THEN [i \in 1..Len(dsink) |-> StructuredClone(dsink[i]).val]
                             ELSE <<>>]
    /\ dpend' = Answered("getAll")
    /\ UNCHANGED <<dcall, dsink, clean, facadeVars, apiVars, openVars, clmVars>>

\* clearLogs up to `await this.storage.clear()`, one such call at a time.
clearLogs_details ==
    /\ "clear" \notin Range(dpend)
    /\ dpend' = Append(dpend, "clear")
    /\ UNCHANGED <<dcall, dsink, dread, clean, facadeVars, apiVars, openVars, clmVars>>

\* The clear promise settles: the store is empty, or, the clear having
\* failed, the catch block of clearLogs leaves it as it was.
clearLogs_details_resume(ok) ==
    /\ Answerable("clear")
    /\ dsink' = IF ok THEN <<>> ELSE dsink
    /\ dcall' = IF ok THEN [dcall EXCEPT !.kept = FALSE] ELSE dcall
    /\ dpend' = Answered("clear")
    /\ UNCHANGED <<dread, clean, facadeVars, apiVars, openVars, clmVars>>

\* sanitizeDetails applied to a value and then to its own result.
sanitizeTwice(d) ==
    /\ clean = NoClean
    /\ LET once == sanitizeDetails(d)
       IN  clean' = [arg |-> d, once |-> once,
                     twice |-> IF once.threw THEN once ELSE sanitizeDetails(once.val)]
    /\ UNCHANGED <<dcall, dsink, dread, dpend, facadeVars, apiVars, openVars, clmVars>>

----------------------------------------------------------------------------
(* IndexedDBLogStorage: the lazily opened database. *)

\* The most storage operations called on one instance.
MaxCallers == 3

Environments == {"browser", "noIndexedDB", "server"}
StorageOps == {"store", "getAll", "getByType", "clear", "count"}

\* initDatabase without the test of this.dbPromise: a promise and an open
\* request for every call.
initDatabase_unmemoized(e, held, made, n) ==
    [dbPromise |-> Len(made) + 1,
     promises |-> Append(made, IF e = "browser" THEN "pending" ELSE "rejected"),
     opens |-> IF e = "browser" THEN n + 1 ELSE n]

\* initDatabase in environment e, this.dbPromise being held, the promises
\* made so far being made and n opens having been requested.  A promise is
\* created only while this.dbPromise is null; its executor rejects at once
\* without a window or without window.indexedDB, and otherwise calls
\* window.indexedDB.open.  Returns this.dbPromise.
initDatabase(e, held, made, n) ==
    IF held # 0
    THEN [dbPromise |-> held, promises |-> made, opens |-> n]
    ELSE [dbPromise |-> Len(made) + 1,
          promises |-> Append(made, IF e = "browser" THEN "pending" ELSE "rejected"),
          opens |-> IF e = "browser" THEN n + 1 ELSE n]

\* new IndexedDBLogStorage(): the constructor calls initDatabase.
construct(e) ==
    /\ env = "none"
    /\ env' = e
    /\ LET r == initDatabase(e, dbPromise, promises, opens)
       IN  /\ dbPromise' = r.dbPromise
           /\ promises' = r.promises
           /\ opens' = r.opens
    /\ sops' = sops
    /\ UNCHANGED <<facadeVars, apiVars, detailVars, clmVars>>

\* What a storage operation resolves with: the entry stored, the list
\* read, the count.
NoValue == [entry |-> NoEntry, list |-> <<>>, num |-> 0]

\* store, getAll, getByType, clear or count up to `await this.initDatabase()`.
\* The operation notes the promise it awaits, the state that promise was
\* in when the operation was called, the time it was called at (the
\* timestamp of the entry store is handed), the facade call it serves (0 for an
\* operation called on the instance directly), where it stands (at its
\* await, waiting for the answer to its request, done) and the place of
\* its request among the requests made.
storageOp(kind, id) ==
    /\ env # "none"
    /\ Len(sops) < MaxCallers
    /\ LET r == initDatabase(env, dbPromise, promises, opens)
       IN  /\ dbPromise' = r.dbPromise
           /\ promises' = r.promises
           /\ opens' = r.opens
           /\ sops' = Append(sops, [kind |-> kind, awaits |-> r.dbPromise,
                                    calledWhile |-> r.promises[r.dbPromise],
                                    ts |-> clock, result |-> "pending", call |-> id,
                                    step |-> "await", req |-> 0, value |-> NoValue])
    /\ env' = env

\* An operation called on the instance directly: store({timestamp:
\* Date.now(), type: 'info'}), getAll(), getByType('info'), clear(), count().
callStorage(kind) ==
    /\ storageOp(kind, 0)
    /\ UNCHANGED <<facadeVars, apiVars, detailVars, clmVars>>

\* request.onsuccess or request.onerror: the promise of an open request
\* settles.
openSettles(k, ok) ==
    /\ k \in 1..Len(promises)
    /\ promises[k] = "pending"
    /\ promises' = [promises EXCEPT ![k] = IF ok THEN "fulfilled" ELSE "rejected"]
    /\ UNCHANGED <<env, dbPromise, opens, sops, facadeVars, apiVars, detailVars, clmVars>>

\* Operation i goes on after `await this.initDatabase()`, the operations
\* that awaited the same promise before it having gone on: with a rejected
\* promise it rejects; with the database it opens its transaction and
\* makes its request, val being what it has prepared to resolve with.
storageAwaited(i, val) ==
    /\ i \in 1..Len(sops)
    /\ sops[i].step = "await"
    /\ promises[sops[i].awaits] # "pending"
    /\ \A j \in 1..(i - 1) : sops[j].awaits = sops[i].awaits => sops[j].step # "await"
    /\ sops' = [sops EXCEPT ![i] =
                   IF promises[@.awaits] = "fulfilled"
                   THEN [@ EXCEPT !.step = "request", !.value = val,
                                  !.req = 1 + Cardinality({j \in 1..Len(sops) : sops[j].req > 0})]
                   ELSE [@ EXCEPT !.step = "done", !.result = "rejected"]]

\* The request of operation i is answered, with success or with an error,
\* and the operation resolves with val or rejects.
storageAnswered(i, ok, val) ==
    /\ i \in 1..Len(sops)
    /\ sops[i].step = "request"
    /\ \A j \in 1..Len(sops) :
          (sops[j].step = "request" /\ sops[j].req < sops[i].req)
              => ~(Writes(sops[j].kind) \/ Writes(sops[i].kind))
    /\ sops' = [sops EXCEPT ![i] = [@ EXCEPT !.step = "done",
                                             !.result = IF ok THEN "resolved" ELSE "rejected",
                                             !.value = IF ok THEN val ELSE NoValue]]

\* An operation called on the instance goes on after its await.  store
\* gives the entry it was called with its id: { ...entry, id:
\* crypto.randomUUID() }, the timestamp being the one the caller read when
\* it called store.
resumeStorage(i) ==
    /\ i \in 1..Len(sops)
    /\ sops[i].call = 0
    /\ IF sops[i].kind = "store" /\ promises[sops[i].awaits] = "fulfilled"
       THEN \E u \in FreshUuids :
               /\ storageAwaited(i, [NoValue EXCEPT
                                        !.entry = store(db, sops[i].ts, "info", u).entry])
               /\ uuids' = uuids \cup {u}
       ELSE /\ storageAwaited(i, NoValue)
            /\ uuids' = uuids
    /\ UNCHANGED <<listeners, db, clock, ops, calls, last, iter, trace, handles, unsubscribed, regBefore, hooks, storage>>
    /\ UNCHANGED <<env, dbPromise, promises, opens, apiVars, detailVars, clmVars>>

\* The request of an operation called on the instance is answered: on
\* success the object store has added the entry, or is cleared, or has
\* been read.
requestSettles(i, ok) ==
    /\ i \in 1..Len(sops)
    /\ sops[i].call = 0
    /\ LET o == sops[i]
           e == o.value.entry
       IN  /\ storageAnswered(i, ok,
                  CASE o.kind = "store" -> o.value
                    [] o.kind = "getAll" -> [NoValue EXCEPT !.list = getAll(db)]
                    [] o.kind = "getByType" -> [NoValue EXCEPT !.list = getByType(db, "info")]
                    [] o.kind = "count" -> [NoValue EXCEPT !.num = count(db)]
                    [] OTHER -> NoValue)
           /\ db' = CASE ok /\ o.kind = "store" -> store(db, e.timestamp, e.type, e.id.n).db
                      [] ok /\ o.kind = "clear" -> clear(db)
                      [] OTHER -> db
    /\ UNCHANGED <<listeners, uuids, clock, ops, calls, last, iter, trace, handles, unsubscribed, regBefore, hooks, storage>>
    /\ UNCHANGED <<env, dbPromise, promises, opens, apiVars, detailVars, clmVars>>

----------------------------------------------------------------------------
(* The collector facade: every leveled call is one POST to the collector, *)
(* with the console as fallback.                                          *)

\* The most leveled calls made on the collector facade.
MaxClmCalls == 1

\* enum LogType as an object: a member it does not have reads as undefined.
LogTypeEnum == [INFO |-> "info", ERROR |-> "error", SUCCESS |-> "success",
                WARNING |-> "warning"]
LogTypeMember(name) ==
    IF name \in DOMAIN LogTypeEnum THEN LogTypeEnum[name] ELSE "undefined"

\* The values process.env.NEXT_PUBLIC_CLM_URL takes: unset, empty, a URL,
\* a URL ending in a slash.
EnvUrls == {"undefined", "", "http://clm", "http://clm/"}

\* clmEnvUrl.replace(/\/$/, '') followed by /log
LogUrl(u) == [base |-> IF u = "http://clm/" THEN "http://clm" ELSE u, path |-> "/log"]
NoUrl == [base |-> "undefined", path |-> ""]

\* The details passed to the collector facade.
ClmDetails ==
    {Undefined, Num(0), Obj(<<"a">>, <<Num(1)>>), Obj(<<"self">>, <<Ref>>),
     Bare(<<"self">>, <<Ref>>)}

\* A switch with the four members of the enum and the default only.
logTypeToString_fourCases(level) ==
    CASE level = LogTypeMember("INFO") -> "info"
      [] level = LogTypeMember("SUCCESS") -> "success"
      [] level = LogTypeMember("WARNING") -> "warning"
      [] level = LogTypeMember("ERROR") -> "error"
      [] OTHER -> "info"

\* logTypeToString: the switch compares the level with each member in turn.
logTypeToString(level) ==
    CASE level = LogTypeMember("INFO") -> "info"
      [] level = LogTypeMember("SUCCESS") -> "success"
      [] level = LogTypeMember("WARNING") -> "warning"
      [] level = LogTypeMember("ERROR") -> "error"
      [] level = LogTypeMember("DEBUG") -> "debug"
      [] OTHER -> "info"

\* A console fallback that writes everything with console.log.
logToConsole_log(level, tag) ==
    [what |-> "message", method |-> "log", tag |-> tag]

\* logToConsole: the console method the message is written with.
logToConsole(level, tag) ==
    [what |-> "message",
     method |-> CASE level = LogTypeMember("INFO") -> "info"
                  [] level = LogTypeMember("SUCCESS") -> "log"
                  [] level = LogTypeMember("WARNING") -> "warn"
                  [] level = LogTypeMember("ERROR") -> "error"
                  [] level = LogTypeMember("DEBUG") -> "debug"
                  [] OTHER -> "log",
     tag |-> tag]

\* console.warn('Failed to send log to CLM ...')
FailureWarning == [what |-> "failure", method |-> "warn", tag |-> ""]

NoClm == [constructed |-> FALSE, isClmConfigured |-> FALSE, clmUrl |-> NoUrl,
          urlAtConstruction |-> "undefined"]
NoPayload == [level |-> "", details |-> Undefined]
NoClmCall == [id |-> 0, method |-> "none", level |-> "undefined", arg |-> Undefined,
              phase |-> "done", posts |-> 0, writes |-> <<>>, payload |-> NoPayload,
              response |-> "none", body |-> "none", outcome |-> "pending"]

\* The constructor: the collector is configured in a browser with a
\* non-empty NEXT_PUBLIC_CLM_URL, and only there.
constructLogger(win, url) ==
    /\ ~clm.constructed
    /\ hasWindow' = win
    /\ envUrl' = url
    /\ clm' = IF win /\ url \notin {"undefined", ""}
              THEN [constructed |-> TRUE, isClmConfigured |-> TRUE, clmUrl |-> LogUrl(url),
                    urlAtConstruction |-> url]
              ELSE [constructed |-> TRUE, isClmConfigured |-> FALSE, clmUrl |-> NoUrl,
                    urlAtConstruction |-> url]
    /\ UNCHANGED <<ccalls, cdone, cn, facadeVars, apiVars, detailVars, openVars>>

\* The environment variable is given another value while the process runs.
setEnvUrl(url) ==
    /\ clm.constructed
    /\ url # envUrl
    /\ envUrl' = url
    /\ UNCHANGED <<hasWindow, clm, ccalls, cdone, cn, facadeVars, apiVars, detailVars, openVars>>

\* What the leveled calls change: the calls in flight, the call that
\* completed last and the number of calls.
Collector == [ccalls |-> ccalls, cdone |-> cdone, cn |-> cn]

\* sendToCLM up to its await, on the collector st.  Disabled, it writes the
\* message to the console and returns.  Configured, it builds the payload,
\* sanitizeDetails running outside the try block, and posts it.
sendToCLM(st, method, level, details) ==
    LET c == [NoClmCall EXCEPT !.id = st.cn + 1, !.method = method, !.level = level,
                               !.arg = details]
        d == IF details # Undefined THEN sanitizeDetails(details)
             ELSE Returned(Undefined)
    IN  IF ~hasWindow \/ ~clm.isClmConfigured \/ clm.clmUrl = NoUrl
        THEN [ccalls |-> st.ccalls,
              cdone |-> [c EXCEPT !.writes = <<logToConsole(level, "(CLM Disabled)")>>,
                                  !.outcome = "resolved"],
              cn |-> st.cn + 1]
        ELSE IF d.threw
        THEN [ccalls |-> st.ccalls, cdone |-> [c EXCEPT !.outcome = "rejected"],
              cn |-> st.cn + 1]
        ELSE [ccalls |-> Append(st.ccalls,
                           [c EXCEPT !.phase = "fetch", !.posts = 1,
                                     !.payload = [level |-> logTypeToString(level),
                                                  details |-> d.val]]),
              cdone |-> st.cdone,
              cn |-> st.cn + 1]

\* info, error, success, warn or debug, called by a caller of the facade:
\* await this.sendToCLM(level, message, details), up to the await.
leveled(method, level, details) ==
    /\ clm.constructed
    /\ cn < MaxClmCalls
    /\ LET st == sendToCLM(Collector, method, level, details)
       IN  /\ ccalls' = st.ccalls
           /\ cdone' = st.cdone
           /\ cn' = st.cn
    /\ UNCHANGED <<hasWindow, envUrl, clm, facadeVars, apiVars, detailVars, openVars>>

clm_info == \E d \in ClmDetails : leveled("info", LogTypeMember("INFO"), d)
clm_error == \E d \in ClmDetails : leveled("error", LogTypeMember("ERROR"), d)
clm_success == \E d \in ClmDetails : leveled("success", LogTypeMember("SUCCESS"), d)
clm_warn == \E d \in ClmDetails : leveled("warn", LogTypeMember("WARNING"), d)
clm_debug == \E d \in ClmDetails : leveled("debug", LogTypeMember("DEBUG"), d)

ClmPos(id) == CHOOSE k \in 1..Len(ccalls) : ccalls[k].id = id
ClmPending == {ccalls[k].id : k \in 1..Len(ccalls)}

\* A catch block that throws the error again after its two console writes.
networkFail_rethrow(c) ==
    [c EXCEPT !.phase = "done", !.outcome = "rejected",
              !.writes = @ \o <<FailureWarning, logToConsole(c.level, "(CLM Network Fail)")>>]

\* The catch block of sendToCLM: a warning, then the console fallback.
networkFail(c) ==
    [c EXCEPT !.phase = "done", !.outcome = "resolved",
              !.writes = @ \o <<FailureWarning, logToConsole(c.level, "(CLM Network Fail)")>>]

\* The fetch promise settles: a 2xx response, another response, or a
\* rejection.  On a response that is not ok the body is read first
\* (await response.text() is an argument of console.warn).
fetchSettles(id, how) ==
    /\ id \in ClmPending
    /\ LET c == ccalls[ClmPos(id)]
       IN  /\ c.phase = "fetch"
           /\ CASE how = "2xx" ->
                     /\ cdone' = [c EXCEPT !.phase = "done", !.response = how,
                                           !.outcome = "resolved"]
                     /\ ccalls' = SelectSeq(ccalls, LAMBDA x : x.id # id)
                [] how = "non2xx" ->
                     /\ cdone' = cdone
                     /\ ccalls' = [ccalls EXCEPT ![ClmPos(id)] =
                                      [c EXCEPT !.phase = "body", !.response = how]]
                [] OTHER ->
                     /\ cdone' = networkFail([c EXCEPT !.response = how])
                     /\ ccalls' = SelectSeq(ccalls, LAMBDA x : x.id # id)
    /\ UNCHANGED <<hasWindow, envUrl, clm, cn, facadeVars, apiVars, detailVars, openVars>>

\* response.text() settles: the warning with the body and the console
\* fallback, or, the read failing, the catch block.
bodySettles(id, ok) ==
    /\ id \in ClmPending
    /\ LET c == ccalls[ClmPos(id)]
       IN  /\ c.phase = "body"
           /\ cdone' = IF ok
                       THEN [c EXCEPT !.phase = "done", !.outcome = "resolved",
                                      !.body = "read",
                                      !.writes = @ \o <<FailureWarning,
                                                        logToConsole(c.level, "(CLM Send Fail)")>>]
                       ELSE networkFail([c EXCEPT !.body = "failed"])
           /\ ccalls' = SelectSeq(ccalls, LAMBDA x : x.id # id)
    /\ UNCHANGED <<hasWindow, envUrl, clm, cn, facadeVars, apiVars, detailVars, openVars>>

----------------------------------------------------------------------------
(* The token endpoint: GET /api/livekit-token. *)

\* What searchParams.get returns for identity, room and region: null for a
\* parameter that is absent, else its text.
Identities == {Null, Str(""), Str("alice")}
Rooms == {Null, Str(""), Str("lab")}
Regions == {Null, Str(""), Str("eu")}

\* LIVEKIT_API_KEY, LIVEKIT_API_SECRET and LIVEKIT_HOST: unset, empty, set.
Secrets == {Undefined, Str(""), Str("secret")}
Hosts == {Undefined, Str(""), Str("wss://livekit")}

\* accessToken.toJwt(): a string, a promise of one, a Buffer; or it throws,
\* or its promise rejects.
JwtOutcomes == {"string", "promise", "buffer", "throws", "rejects"}

\* The claims a token is made with.
NoToken == [identity |-> Undefined, room |-> Undefined, region |-> Undefined]

NoRequest == [called |-> FALSE, identity |-> Null, room |-> Null, region |-> Null,
              apiKey |-> Undefined, apiSecret |-> Undefined, host |-> Undefined,
              jwt |-> "string"]
NoResponse == [status |-> 0, error |-> Undefined, token |-> NoToken, url |-> Undefined,
               region |-> Undefined]

\* NextResponse.json({ error }, { status })
ErrorResponse(status, msg) == [NoResponse EXCEPT !.status = status, !.error = Str(msg)]

\* An endpoint that looks at the credentials before the identity.
GET_credentialsFirst(q) ==
    IF ~Truthy(q.apiKey) \/ ~Truthy(q.apiSecret) \/ ~Truthy(q.host)
    THEN ErrorResponse(500, "Missing LiveKit credentials")
    ELSE IF ~Truthy(q.identity)
    THEN ErrorResponse(400, "Missing identity parameter")
    ELSE IF q.jwt \in {"throws", "rejects"}
    THEN ErrorResponse(500, "Failed to generate token")
    ELSE [NoResponse EXCEPT
            !.status = 200,
            !.token = [identity |-> q.identity,
                       room |-> IF q.room = Null THEN Str("betsy-classroom") ELSE q.room,
                       region |-> IF Truthy(q.region) THEN q.region ELSE Undefined],
            !.url = q.host,
            !.region = IF Truthy(q.region) THEN q.region ELSE Undefined]

\* GET: the identity, then room ?? 'betsy-classroom' and the region, then
\* the three environment variables, then the token with its grant.
GET(q) ==
    IF ~Truthy(q.identity)
    THEN ErrorResponse(400, "Missing identity parameter")
    ELSE IF ~Truthy(q.apiKey) \/ ~Truthy(q.apiSecret) \/ ~Truthy(q.host)
    THEN ErrorResponse(500, "Missing LiveKit credentials")
    ELSE IF q.jwt \in {"throws", "rejects"}
    THEN ErrorResponse(500, "Failed to generate token")
    ELSE [NoResponse EXCEPT
            !.status = 200,
            !.token = [identity |-> q.identity,
                       room |-> IF q.room = Null THEN Str("betsy-classroom") ELSE q.room,
                       region |-> IF Truthy(q.region) THEN q.region ELSE Undefined],
            !.url = q.host,
            !.region = IF Truthy(q.region) THEN q.region ELSE Undefined]

\* GET comes to `jwt = await jwt`: the identity and the credentials are
\* there and toJwt() has returned a promise.
GET_awaits(q) ==
    /\ Truthy(q.identity)
    /\ Truthy(q.apiKey) /\ Truthy(q.apiSecret) /\ Truthy(q.host)
    /\ q.jwt \in {"promise", "rejects"}

\* The endpoint takes a request and runs up to its response, or up to its
\* await with the response still to come; the environment variables have
\* been read by then.  It keeps nothing from one request to the next, so
\* one request is followed.
tokenRoute(identity, room, region, apiKey, apiSecret, host, jwt) ==
    /\ ~request.called
    /\ LET q == [called |-> TRUE, identity |-> identity, room |-> room, region |-> region,
              apiKey |-> apiKey, apiSecret |-> apiSecret, host |-> host, jwt |-> jwt]
       IN  /\ request' = q
           /\ response' = IF GET_awaits(q) THEN NoResponse ELSE GET(q)
    /\ UNCHANGED <<acall, ctl, facadeVars, detailVars, openVars, clmVars>>

\* The promise toJwt() returned settles and GET goes on to its response.
jwtSettles ==
    /\ request.called
    /\ response = NoResponse
    /\ response' = GET(request)
    /\ UNCHANGED <<request, acall, ctl, facadeVars, detailVars, openVars, clmVars>>

----------------------------------------------------------------------------
(* The clients: startAgentSession, stopAgentSession, checkAgentStatus and *)
(* getLiveKitToken, each logging to the collector facade.                 *)

\* The status of the response fetch resolved with; response.ok is a status
\* from 200 to 299.
Statuses == {200, 400, 500}
\* In place of a status when fetch rejected: there is no response.
NetworkError == 0
ResponseOk(status) == status >= 200 /\ status <= 299

\* response.statusText
StatusText(status) ==
    CASE status = 200 -> "OK"
      [] status = 400 -> "Bad Request"
      [] OTHER -> "Internal Server Error"

\* The bodies a response may carry: JSON texts, and texts that are not JSON.
BodyValues ==
    {Obj(<<"detail">>, <<Str("boom")>>), Obj(<<"error">>, <<Str("boom")>>),
     Obj(<<"detail">>, <<Str("")>>), Obj(<<"error">>, <<Str("")>>),
     Obj(<<>>, <<>>), Null,
     Obj(<<"token", "url">>, <<Str("jwt"), Str("wss://livekit")>>),
     Obj(<<"success">>, <<Bool(1)>>),
     Obj(<<"success", "session_id", "room_name">>, <<Bool(1), Str("s1"), Str("lab")>>)}
Bodies ==
    {JSONstringify(v) : v \in BodyValues}
      \cup {[st |-> "text", toks |-> <<>>], [st |-> "text", toks |-> <<Punct("<")>>]}

\* response.json()
response_json(body) == JSONparse(body)

\* v[key]: reading a property of null or undefined throws a TypeError; a
\* property that is not there reads as undefined.
Member(v, key) ==
    IF v.t \in {"null", "undefined"} THEN Thrown
    ELSE IF \E i \in 1..Len(v.keys) : v.keys[i] = key
    THEN Returned(v.kv[CHOOSE i \in 1..Len(v.keys) : v.keys[i] = key])
    ELSE Returned(Undefined)

\* a || b
Or(a, b) == IF Truthy(a) THEN a ELSE b

\* `${prefix}${v}`
Template(prefix, v) == prefix \o String(v).val.s

\* text.length, of the texts the responses of a run carry.
Length(text) ==
    CASE text = "jwt" -> 3
      [] text = "wss://livekit" -> 13
      [] text = "" -> 0

\* A promise rejected with an error, and one resolved with the value the
\* function returns.
Rejected(name, msg) ==
    [outcome |-> "rejected", name |-> name, message |-> msg, value |-> Undefined]
Resolved(v) ==
    [outcome |-> "resolved", name |-> "", message |-> Undefined, value |-> v]

\* What await fetch(...) threw.
FetchError == Rejected("TypeError", Str("Failed to fetch"))
\* What response.json() throws on a text that is not JSON.
JsonError == Rejected("SyntaxError", Str("Unexpected token"))
\* What reading a property of null throws.
NullError == Rejected("TypeError", Str("Cannot read properties of null"))

\* The arguments the caller of a run passes to getLiveKitToken, and the
\* region, NEXT_PUBLIC_LIVEKIT_REGION being unset.
Identity == "alice"
Room == "lab"
LIVEKIT_REGION == "eu-west-2"

\* logger.info(message, details) and the like: a call of the collector
\* facade that the client does not await.
LogCall(method, message, details) ==
    [method |-> method, message |-> message, details |-> details]

\* The category each leveled method passes to sendToCLM.
LevelOf(method) ==
    CASE method = "info" -> LogTypeMember("INFO")
      [] method = "error" -> LogTypeMember("ERROR")
      [] method = "success" -> LogTypeMember("SUCCESS")
      [] method = "warn" -> LogTypeMember("WARNING")
      [] OTHER -> LogTypeMember("DEBUG")

\* How a client function ends once fetch has settled, and the calls of the
\* collector facade it makes on the way.
Ended(result, logs) == [result |-> result, logs |-> logs]

\* catch (error) { logger.error(message, { error }); throw error; }
Caught(message, r, logs) ==
    Ended(r, Append(logs, LogCall("error", message,
                                  Obj(<<"error">>, <<Err(String(r.message).val.s, <<>>, <<>>)>>))))

\* { status: response.status }
StatusDetails(f) == Obj(<<"status">>, <<Num(f)>>)

\* startAgentSession from `await fetch(...)` on, f being NetworkError or
\* the status of the response and body its text.  The body of a response
\* that is not ok is read inside a try block of its own; the outer catch
\* block logs and throws the error again.
startAgentSession(f, body) ==
    LET j == response_json(body)
        caught(r, logs) == Caught("Error starting agent session", r, logs)
    IN  IF f = NetworkError THEN caught(FetchError, <<>>)
        ELSE IF ~ResponseOk(f)
        THEN LET d == IF j.threw THEN Thrown ELSE Member(j.val, "detail")
                 errorText == IF d.threw THEN Str("Failed to start agent session")
                              ELSE Or(d.val, Str("Failed to start agent session"))
             IN  caught(Rejected("Error", errorText),
                        <<LogCall("error", Template("Agent API error: ", errorText),
                                  StatusDetails(f))>>)
        ELSE IF j.threw THEN caught(JsonError, <<>>)
        ELSE IF Member(j.val, "success").threw THEN caught(NullError, <<>>)
        ELSE LET ok == Member(j.val, "success").val
                 session_id == Member(j.val, "session_id").val
                 room_name == Member(j.val, "room_name").val
             IN  IF Truthy(ok) /\ Truthy(session_id) /\ Truthy(room_name)
                 THEN Ended(Resolved(j.val),
                            <<LogCall("success", "Agent session started successfully",
                                      Obj(<<"sessionId", "roomName">>,
                                          <<session_id, room_name>>))>>)
                 ELSE IF Truthy(ok)
                 THEN Ended(Resolved(j.val),
                            <<LogCall("warn", "Agent session started with incomplete data",
                                      Obj(<<"sessionId", "roomName">>,
                                          <<Or(session_id, Str("missing")),
                                            Or(room_name, Str("missing"))>>))>>)
                 ELSE Ended(Resolved(j.val), <<>>)

\* stopAgentSession from `await fetch(...)` on.
stopAgentSession(f, body) ==
    LET j == response_json(body)
        caught(r, logs) == Caught("Error stopping agent session", r, logs)
    IN  IF f = NetworkError THEN caught(FetchError, <<>>)
        ELSE IF ~ResponseOk(f)
        THEN LET d == IF j.threw THEN Thrown ELSE Member(j.val, "detail")
                 errorText == IF d.threw THEN Str("Failed to stop agent session")
                              ELSE Or(d.val, Str("Failed to stop agent session"))
             IN  caught(Rejected("Error", errorText),
                        <<LogCall("error", Template("Agent API error: ", errorText),
                                  StatusDetails(f))>>)
        ELSE IF j.threw THEN caught(JsonError, <<>>)
        ELSE Ended(Resolved(j.val),
                   <<LogCall("success", "Agent session stopped successfully", Undefined)>>)

\* checkAgentStatus from `await fetch(...)` on: the body of a response that
\* is not ok is not read.
checkAgentStatus(f, body) ==
    LET j == response_json(body)
        caught(r, logs) == Caught("Error checking agent status", r, logs)
    IN  IF f = NetworkError THEN caught(FetchError, <<>>)
        ELSE IF ~ResponseOk(f)
        THEN caught(Rejected("Error", Str("Failed to check agent status")),
                    <<LogCall("error", "Failed to check agent status", StatusDetails(f))>>)
        ELSE IF j.threw THEN caught(JsonError, <<>>)
        ELSE Ended(Resolved(j.val), <<LogCall("info", "Agent status checked", j.val)>>)

\* getLiveKitToken from `await fetch(...)` on: the body of a response that
\* is not ok is read with no try block of its own around response.json().
getLiveKitToken(f, body) ==
    LET j == response_json(body)
        caught(r, logs) == Caught("Error while fetching LiveKit token", r, logs)
    IN  IF f = NetworkError THEN caught(FetchError, <<>>)
        ELSE IF j.threw THEN caught(JsonError, <<>>)
        ELSE IF ~ResponseOk(f)
        THEN LET e == Member(j.val, "error")
                 errorMessage == Or(e.val, Str("Failed to get LiveKit token"))
             IN  IF e.threw THEN caught(NullError, <<>>)
                 ELSE caught(Rejected("Error", errorMessage),
                             <<LogCall("error",
                                       Template("LiveKit token request failed: ", errorMessage),
                                       Obj(<<"status", "statusText">>,
                                           <<Num(f), Str(StatusText(f))>>))>>)
        ELSE LET t == Member(j.val, "token")
                 token == String(t.val).val
                 url == String(Member(j.val, "url").val).val
             IN  IF t.threw THEN caught(NullError, <<>>)
                 ELSE IF ~Truthy(t.val) \/ ~Truthy(Member(j.val, "url").val)
                 THEN caught(Rejected("Error", Str("Invalid response from token API")),
                             <<LogCall("error", "Invalid response from token API",
                                       Obj(<<"data">>, <<j.val>>))>>)
                 ELSE Ended(Resolved(Obj(<<"token", "url">>, <<token, url>>)),
                            <<LogCall("success", "Successfully obtained LiveKit token",
                                      Obj(<<"tokenLength", "url", "region">>,
                                          <<Num(Length(token.s)), url,
                                            Str(LIVEKIT_REGION)>>))>>)

\* The call of the collector facade a function makes before its try block.
FirstLogs(op) ==
    CASE op = "stop" -> <<LogCall("info", "Stopping agent session", Undefined)>>
      [] op = "status" -> <<LogCall("info", "Checking agent status", Undefined)>>
      [] op = "token" ->
            <<LogCall("info",
                      "Requesting LiveKit token for identity: " \o Identity
                        \o ", room: " \o Room \o ", region: " \o LIVEKIT_REGION,
                      Undefined)>>
      [] OTHER -> <<>>

\* What each function hands to fetch.
Endpoint(op) ==
    CASE op = "start" -> [method |-> "POST", path |-> "/api/start-session"]
      [] op = "stop" -> [method |-> "POST", path |-> "/api/stop-session"]
      [] op = "status" -> [method |-> "GET", path |-> "/api/status"]
      [] OTHER -> [method |-> "GET", path |-> "/api/livekit-token"]

\* The function comes to `await response.json()` once fetch has resolved
\* with status f.
ReadsBody(op, f) == f # NetworkError /\ (op = "status" => ResponseOk(f))

EndOf(op, f, body) ==
    CASE op = "start" -> startAgentSession(f, body)
      [] op = "stop" -> stopAgentSession(f, body)
      [] op = "status" -> checkAgentStatus(f, body)
      [] OTHER -> getLiveKitToken(f, body)

NoBody == [st |-> "text", toks |-> <<>>]
NoApiCall == [op |-> "none", phase |-> "none", sent |-> [method |-> "", path |-> ""],
              fetch |-> NetworkError, body |-> NoBody, result |-> Resolved(Undefined),
              logged |-> <<>>]

RECURSIVE Logged(_, _)
\* The collector st after the leveled calls of logs, made in turn, each
\* running up to the await of its sendToCLM.
Logged(st, logs) ==
    IF logs = <<>> THEN st
    ELSE Logged(sendToCLM(st, Head(logs).method, LevelOf(Head(logs).method),
                          Head(logs).details),
                Tail(logs))

\* The client makes the leveled calls of logs.
Logs(logs) ==
    LET st == Logged(Collector, logs)
    IN  /\ ccalls' = st.ccalls
        /\ cdone' = st.cdone
        /\ cn' = st.cn

\* One of the functions is called and runs up to `await fetch(...)`.  The
\* module has constructed the collector facade when it was loaded.  The
\* functions keep nothing from one call to the next, so one call is followed.
clientCall(op) ==
    /\ clm.constructed
    /\ acall.op = "none"
    /\ acall' = [NoApiCall EXCEPT !.op = op, !.phase = "fetch", !.sent = Endpoint(op),
                                  !.logged = FirstLogs(op)]
    /\ Logs(FirstLogs(op))
    /\ UNCHANGED <<hasWindow, envUrl, clm, request, response, ctl, facadeVars, detailVars, openVars>>

callStart == clientCall("start")
callStop == clientCall("stop")
callStatus == clientCall("status")
callToken == clientCall("token")

\* fetch settles: rejected, or resolved with a response of status f.  The
\* function goes on to `await response.json()`, or to its end where it
\* does not read the body.
clientFetched(f) ==
    /\ acall.phase = "fetch"
    /\ LET e == EndOf(acall.op, f, NoBody)
       IN  IF ReadsBody(acall.op, f)
           THEN /\ acall' = [acall EXCEPT !.phase = "json", !.fetch = f]
                /\ UNCHANGED <<ccalls, cdone, cn>>
           ELSE /\ acall' = [acall EXCEPT !.phase = "done", !.fetch = f,
                                          !.result = e.result, !.logged = @ \o e.logs]
                /\ Logs(e.logs)
    /\ UNCHANGED <<hasWindow, envUrl, clm, request, response, ctl, facadeVars, detailVars, openVars>>

\* response.json() settles, body being the text of the response, and the
\* function runs to its end.
clientParsed(body) ==
    /\ acall.phase = "json"
    /\ LET e == EndOf(acall.op, acall.fetch, body)
       IN  /\ acall' = [acall EXCEPT !.phase = "done", !.body = body,
                                     !.result = e.result, !.logged = @ \o e.logs]
           /\ Logs(e.logs)
    /\ UNCHANGED <<hasWindow, envUrl, clm, request, response, ctl, facadeVars, detailVars, openVars>>

----------------------------------------------------------------------------

\* The state the module leaves when it is loaded: getInstance has built the
\* facade, win telling whether there was a window.
FacadeLoaded(win) ==
    /\ listeners = <<>>
    /\ db = {}
    /\ uuids = {}
    /\ clock = 0
    /\ ops = 0
    /\ calls = <<>>
    /\ last = NoCall
    /\ iter = NoIter
    /\ trace = NoTrace
    /\ handles = {}
    /\ unsubscribed = {}
    /\ regBefore = {}
    /\ hooks = <<>>
    /\ storage = getInstance(win)

\* The facade of a browser.
FacadeInit == FacadeLoaded(TRUE)

DetailInit ==
    /\ dcall = NoDCall
    /\ dsink = <<>>
    /\ dread = NoRead
    /\ dpend = <<>>
    /\ clean = NoClean

OpenInit ==
    /\ env = "none"
    /\ dbPromise = 0
    /\ promises = <<>>
    /\ opens = 0
    /\ sops = <<>>

ClmInit ==
    /\ hasWindow = FALSE
    /\ envUrl = "undefined"
    /\ clm = NoClm
    /\ ccalls = <<>>
    /\ cdone = NoClmCall
    /\ cn = 0

----------------------------------------------------------------------------
(* ConversationController: the mount effects, the Start/Stop button, the  *)
(* token request, the agent session and the LiveKit room.                 *)

\* The most events a run delivers to the component: its mount, the input
\* of the user, the answers to its requests, its timers and the callbacks
\* of the room.
MaxEvents == 10

\* What the textarea can hold: nothing, blanks, a prompt.
Instructions == {"", " ", "teach"}
\* instructions.trim()
Trim(text) == IF text = " " THEN "" ELSE text

\* What generateRoomName() may return: the prefix and a random id.
RoomNames == {"betsy-classroom-a", "betsy-classroom-b"}

\* What enumerateDevices() may give: a rejection, no microphone, a
\* microphone without a label, a microphone with its label.
Devices == {"rejected", "none", "unlabelled", "labelled"}

\* How a request of the component may be answered: fetch rejects, or
\* resolves with a response of one of these statuses and bodies.  The body
\* with an empty array for its token passes the test of getLiveKitToken
\* and gives the empty string under String().
ControllerStatuses == {NetworkError, 200, 500}
\* The API clients the component calls.
ClientOps == {"token", "start", "stop"}
ControllerBodies ==
    {JSONstringify(v) :
        v \in {Obj(<<"token", "url">>, <<Str("jwt"), Str("wss://livekit")>>),
               Obj(<<"token", "url">>, <<Arr(<<>>), Str("wss://livekit")>>),
               Obj(<<"success", "session_id", "room_name">>,
                   <<Bool(1), Str("s1"), Str("lab")>>)}}
\* The bodies the health endpoint may answer with.
HealthBodies ==
    {JSONstringify(Obj(<<"status">>, <<Str("ok")>>)), JSONstringify(Null),
     [st |-> "text", toks |-> <<Punct("<")>>]}

\* The component: whether it is mounted and where the two checks of its
\* effect stand; its useState values; the LiveKitRoom element (none while
\* it is not rendered); the runs of handleStart suspended at `await
\* getLiveKitToken`, each with the request and the instructions and room
\* name of its closure; each startAgentSession request with whether
\* stopAgentSession was called since; the runs of handleStop suspended at
\* `await stopAgentSession`; the timers set; the calls counted; the
\* handler that ran last and how it went; the events left in the run.
NoController ==
    [mounted |-> FALSE, audio |-> "none", health |-> "none",
     instructions |-> "", currentRoomName |-> "", isRoomConnected |-> FALSE,
     isConnecting |-> FALSE, isManualDisconnect |-> FALSE, token |-> "",
     serverUrl |-> "", activeRoomName |-> "", room |-> "none",
     runs |-> <<>>, agents |-> <<>>, stops |-> <<>>, timers |-> 0,
     tokenCalls |-> 0, stopCalls |-> 0, event |-> "none", result |-> "none",
     left |-> 0]

\* What a handler leaves as it returns or comes to an await: the state its
\* setters have set; the calls of logInfo ("info"), logError ("error") and
\* logSuccess ("success") it made, in order; the leveled calls the API
\* clients it called made on the collector facade.
Handled(c, logs, sent) == [ctl |-> c, logs |-> logs, clm |-> sent]

\* s without its i-th element.
Remove(s, i) == SubSeq(s, 1, i - 1) \o SubSeq(s, i + 1, Len(s))

\* startAgentSession, stopAgentSession or getLiveKitToken called by the
\* component: the function runs up to `await fetch(...)`.
Called(op) ==
    [NoApiCall EXCEPT !.op = op, !.phase = "fetch", !.sent = Endpoint(op),
                      !.logged = FirstLogs(op)]

\* The i-th request of the component for operation op, and the component
\* with a in its place.
RequestAt(c, op, i) ==
    CASE op = "token" -> c.runs[i].call
      [] op = "start" -> c.agents[i].call
      [] OTHER -> c.stops[i]
Requested(c, op) ==
    CASE op = "token" -> DOMAIN c.runs
      [] op = "start" -> DOMAIN c.agents
      [] OTHER -> DOMAIN c.stops
WithRequest(c, op, i, a) ==
    [CASE op = "token" -> [c EXCEPT !.runs[i].call = a]
       [] op = "start" -> [c EXCEPT !.agents[i].call = a]
       [] OTHER -> [c EXCEPT !.stops[i] = a]
     EXCEPT !.event = Endpoint(op).path, !.result = a.phase]

\* {token && serverUrl && (<LiveKitRoom .../>)}: the element exists while
\* both are set, and starts connecting when it appears.
LiveKitRoom(c) ==
    IF c.token = "" \/ c.serverUrl = "" THEN [c EXCEPT !.room = "none"]
    ELSE IF c.room = "none" THEN [c EXCEPT !.room = "connecting"]
    ELSE c

\* checkAudioCapabilities up to its await, media telling whether
\* navigator.mediaDevices and its getUserMedia exist.
checkAudioCapabilities(c, media) ==
    IF ~media THEN Handled([c EXCEPT !.audio = "done"], <<"error">>, <<>>)
    ELSE Handled([c EXCEPT !.audio = "enumerating"], <<>>, <<>>)

\* checkAudioCapabilities after `await enumerateDevices()`.
checkAudioCapabilities_resume(c, found) ==
    Handled([c EXCEPT !.audio = "done", !.event = "checkAudioCapabilities",
                      !.result = found],
            IF found \in {"unlabelled", "labelled"} THEN <<"success", "info">>
            ELSE <<"error">>,
            <<>>)

\* checkAgentApiAvailability up to its await, url telling whether
\* NEXT_PUBLIC_AGENT_API_URL is set.
checkAgentApiAvailability(c, url) ==
    IF ~url THEN Handled([c EXCEPT !.health = "done"], <<"error">>, <<>>)
    ELSE Handled([c EXCEPT !.health = "fetch"], <<"info">>, <<>>)

\* checkAgentApiAvailability after `await fetch(.../health)`: the body of
\* a response that is ok is read; a response that is not ok, and a
\* rejection, are logged.
checkAgentApiAvailability_fetched(c, f) ==
    IF f # NetworkError /\ ResponseOk(f)
    THEN Handled([c EXCEPT !.health = "json", !.event = "checkAgentApiAvailability",
                           !.result = "ok"], <<>>, <<>>)
    ELSE Handled([c EXCEPT !.health = "done", !.event = "checkAgentApiAvailability",
                           !.result = IF f = NetworkError THEN "rejected" ELSE "failed"],
                 <<"error">>, <<>>)

\* checkAgentApiAvailability after `await response.json()`: data.status
\* and data.timestamp are read, and a fault of either lands in the catch
\* block around the request.
checkAgentApiAvailability_parsed(c, body) ==
    LET j == response_json(body)
        read == ~j.threw /\ ~Member(j.val, "status").threw
    IN  Handled([c EXCEPT !.health = "done", !.event = "checkAgentApiAvailability",
                          !.result = IF read THEN "available" ELSE "rejected"],
                IF read THEN <<"success">> ELSE <<"error">>,
                <<>>)

\* handleStart up to its await, name being what generateRoomName would
\* return: the two guards (the second one alerts), setIsConnecting(true),
\* the room name, the token request.
handleStart(c, name) ==
    IF c.isRoomConnected \/ c.isConnecting
    THEN Handled([c EXCEPT !.event = "handleStart", !.result = "ignored"], <<"info">>, <<>>)
    ELSE IF Trim(c.instructions) = ""
    THEN Handled([c EXCEPT !.event = "handleStart", !.result = "alert"], <<"error">>, <<>>)
    ELSE LET roomToUse == IF c.currentRoomName = "" THEN name ELSE c.currentRoomName
         IN  Handled([c EXCEPT !.event = "handleStart", !.result = "called",
                               !.isConnecting = TRUE,
                               !.currentRoomName = roomToUse,
                               !.tokenCalls = @ + 1,
                               !.runs = Append(@, [call |-> Called("token"),
                                                   instructions |-> c.instructions,
                                                   room |-> roomToUse])],
                     IF c.currentRoomName = "" THEN <<"info", "info", "info">>
                     ELSE <<"info", "info">>,
                     FirstLogs("token"))

\* What getLiveKitToken resolved with, as handleStart reads it.
NewToken(r) == IF r.outcome = "resolved" THEN Member(r.value, "token").val ELSE Str("")
NewUrl(r) == IF r.outcome = "resolved" THEN Member(r.value, "url").val ELSE Str("")
ResultOf(r) ==
    IF r.outcome = "rejected" THEN "rejected"
    ELSE IF Truthy(NewToken(r)) /\ Truthy(NewUrl(r)) THEN "token"
    ELSE "empty"

\* A catch block that only logs, and no finally block.
handleStart_resume_logOnly(c, run) ==
    LET r == run.call.result
        base == [c EXCEPT !.event = "handleStart_end", !.result = ResultOf(r)]
        started == Append(c.agents, [call |-> Called("start"), state |-> "pending",
                                     stopped |-> FALSE])
    IN  IF r.outcome = "rejected" THEN Handled(base, <<"error">>, <<>>)
        ELSE IF Truthy(NewToken(r)) /\ Truthy(NewUrl(r))
        THEN Handled([base EXCEPT !.agents = started, !.token = NewToken(r).s,
                                  !.serverUrl = NewUrl(r).s, !.activeRoomName = run.room,
                                  !.isConnecting = FALSE],
                     <<"info", "info">>, FirstLogs("start"))
        ELSE Handled([base EXCEPT !.agents = started],
                     <<"info", "error", "error">>, FirstLogs("start"))

\* handleStart after its await, run being the run that goes on.  A
\* rejection goes to the catch block.  Otherwise the agent session is
\* started without being awaited, before the token is looked at, and an
\* empty token or URL is thrown to the catch block, which clears the
\* connection state; finally, setIsConnecting(false).
handleStart_resume(c, run) ==
    LET r == run.call.result
        base == [c EXCEPT !.event = "handleStart_end", !.result = ResultOf(r),
                          !.isConnecting = FALSE]
        started == Append(c.agents, [call |-> Called("start"), state |-> "pending",
                                     stopped |-> FALSE])
        caught == [base EXCEPT !.token = "", !.serverUrl = "", !.activeRoomName = "",
                               !.isRoomConnected = FALSE]
    IN  IF r.outcome = "rejected" THEN Handled(caught, <<"error">>, <<>>)
        ELSE IF Truthy(NewToken(r)) /\ Truthy(NewUrl(r))
        THEN Handled([base EXCEPT !.agents = started, !.token = NewToken(r).s,
                                  !.serverUrl = NewUrl(r).s, !.activeRoomName = run.room],
                     <<"info", "info">>, FirstLogs("start"))
        ELSE Handled([caught EXCEPT !.agents = started],
                     <<"info", "error", "error">>, FirstLogs("start"))

\* The then or the catch callback of startAgentSession(...), the request
\* i having settled.
startAgentSession_then(c, i) ==
    LET outcome == c.agents[i].call.result.outcome
    IN  Handled([c EXCEPT !.agents[i].state = outcome, !.agents[i].call = NoApiCall,
                          !.event = "startAgentSession", !.result = outcome],
                IF outcome = "resolved" THEN <<"success">> ELSE <<"error">>,
                <<>>)

\* handleStop up to its await: the guard, setIsManualDisconnect(true), the
\* stop request.
handleStop(c) ==
    IF ~c.isRoomConnected /\ c.token = ""
    THEN Handled([c EXCEPT !.event = "handleStop", !.result = "ignored"],
                 <<"info", "info">>, <<>>)
    ELSE Handled([c EXCEPT !.event = "handleStop", !.result = "called",
                           !.isManualDisconnect = TRUE,
                           !.stopCalls = @ + 1,
                           !.agents = [i \in DOMAIN @ |-> [@[i] EXCEPT !.stopped = TRUE]],
                           !.stops = Append(@, Called("stop"))],
                 <<"info", "info">>, FirstLogs("stop"))

\* A handleStop that clears the connection state in its try block only.
handleStop_resume_onSuccess(c, a) ==
    IF a.result.outcome = "resolved"
    THEN Handled([c EXCEPT !.event = "handleStop_end", !.result = a.result.outcome,
                           !.token = "", !.serverUrl = "", !.isRoomConnected = FALSE,
                           !.timers = @ + 1],
                 <<"success", "info">>, <<>>)
    ELSE Handled([c EXCEPT !.event = "handleStop_end", !.result = a.result.outcome],
                 <<"error">>, <<>>)

\* handleStop after its await, the request a having resolved or rejected:
\* the finally block clears token and serverUrl, sets isRoomConnected to
\* false and sets the timer.
handleStop_resume(c, a) ==
    Handled([c EXCEPT !.event = "handleStop_end", !.result = a.result.outcome,
                      !.token = "", !.serverUrl = "", !.isRoomConnected = FALSE,
                      !.timers = @ + 1],
            <<IF a.result.outcome = "resolved" THEN "success" ELSE "error", "info">>,
            <<>>)

\* The callbacks of LiveKitRoom.
onConnected(c) ==
    Handled([c EXCEPT !.event = "onConnected", !.result = "none", !.room = "connected",
                      !.isRoomConnected = TRUE, !.isConnecting = FALSE,
                      !.isManualDisconnect = FALSE],
            <<"success">>, <<>>)

onDisconnected(c) ==
    LET d == [c EXCEPT !.event = "onDisconnected", !.result = "none",
                       !.room = "disconnected",
                       !.isRoomConnected = FALSE, !.isConnecting = FALSE]
    IN  Handled(IF ~c.isManualDisconnect THEN [d EXCEPT !.token = "", !.serverUrl = ""]
                ELSE d,
                <<"error">>, <<>>)

onError(c) ==
    Handled([c EXCEPT !.event = "onError", !.result = "none", !.isRoomConnected = FALSE,
                      !.isConnecting = FALSE, !.token = "", !.serverUrl = ""],
            <<"error">>, <<>>)

RECURSIVE useLogger_log(_, _)
\* logInfo, logError and logSuccess of the hook, called in turn with no
\* await between them: each awaits logger.info, logger.error or
\* logger.success, which runs up to the await of its store on the sink of
\* a browser, as IssueWithin has it.
useLogger_log(st, types) ==
    IF types = <<>> THEN st
    ELSE useLogger_log(
            [calls |-> Append(st.calls,
                         [NoCall EXCEPT !.id = st.ops + 1, !.kind = "log",
                                        !.type = Head(types), !.ts = clock,
                                        !.phase = "sink",
                                        !.prevTs = IF /\ st.calls = <<>>
                                                      /\ st.last.kind = "log"
                                                      /\ st.last.outcome = "resolved"
                                                   THEN st.last.entry.timestamp
                                                   ELSE -1]),
             ops |-> st.ops + 1,
             last |-> NoCall,
             trace |-> NoTrace],
            Tail(types))

\* A continuation of the component is ready: the promise a handler awaits,
\* or the one its then and catch callbacks hang on, has settled.  It runs
\* before the next event is delivered.
Ready(c) ==
    \/ \E i \in DOMAIN c.runs : c.runs[i].call.phase = "done"
    \/ \E i \in DOMAIN c.agents : c.agents[i].call.phase = "done"
    \/ \E i \in DOMAIN c.stops : c.stops[i].phase = "done"

\* An event can be delivered to the component, and the component as the
\* event reaches it.
Deliverable == ctl.mounted /\ ctl.left > 0 /\ ~Ready(ctl)
Delivered == [ctl EXCEPT !.left = @ - 1]

\* A step of the component: the state the handler leaves is rendered, and
\* the calls of logInfo, logError and logSuccess it made have reached the
\* facade of the hook.
render(s) ==
    /\ Idle
    /\ ctl' = LiveKitRoom(s.ctl)
    /\ LET st == useLogger_log([calls |-> calls, ops |-> ops, last |-> last,
                                trace |-> trace], s.logs)
       IN  /\ calls' = st.calls
           /\ ops' = st.ops
           /\ last' = st.last
           /\ trace' = st.trace
    /\ UNCHANGED <<listeners, db, uuids, clock, iter, handles, unsubscribed, regBefore, hooks, storage>>
    /\ UNCHANGED <<hasWindow, envUrl, clm, request, response, acall, detailVars, openVars>>

\* A step in which the component calls no API client.
local(s) ==
    /\ render(s)
    /\ UNCHANGED <<ccalls, cdone, cn>>

\* A step in which it may call one: the leveled calls the client makes
\* before its request reach the collector facade.
calling(s) ==
    /\ render(s)
    /\ Logs(s.clm)

\* The component is mounted and its effects run, that of useLogger first:
\* loadLogs() goes up to the await of getAllLogs and the callback is
\* subscribed; then checkAudioCapabilities() and
\* checkAgentApiAvailability() each run up to their await.
mount(media, url) ==
    /\ ~ctl.mounted
    /\ ctl.left > 0
    /\ Idle
    /\ DOMAIN hooks = {}
    /\ LET h == Cardinality(handles) + 1
           a == checkAudioCapabilities([Delivered EXCEPT !.mounted = TRUE, !.event = "mount"],
                                       media)
           s == checkAgentApiAvailability(a.ctl, url)
           st == useLogger_log(
                    [calls |-> Append(calls,
                                 [NoCall EXCEPT !.id = ops + 1, !.kind = "getAll",
                                                !.ts = clock, !.phase = "sink",
                                                !.hook = h]),
                     ops |-> ops + 1, last |-> NoCall, trace |-> NoTrace],
                    a.logs \o s.logs)
       IN  /\ h \in Listeners
           /\ ctl' = LiveKitRoom(s.ctl)
           /\ calls' = st.calls
           /\ ops' = st.ops
           /\ last' = st.last
           /\ trace' = st.trace
           /\ listeners' = subscribe(listeners, h)
           /\ handles' = handles \cup {h}
           /\ unsubscribed' = unsubscribed \ {h}
           /\ regBefore' = regBefore \cup {<<x, h>> : x \in Range(listeners)}
           /\ hooks' = (h :> useLogger)
    /\ UNCHANGED <<db, uuids, clock, iter, storage>>
    /\ UNCHANGED <<request, response, acall, detailVars, openVars, clmVars>>

\* enumerateDevices() settles.
devicesEnumerated(found) ==
    /\ ctl.audio = "enumerating"
    /\ Deliverable
    /\ local(checkAudioCapabilities_resume(Delivered, found))

\* The request to the health endpoint settles.
healthFetched(f) ==
    /\ ctl.health = "fetch"
    /\ Deliverable
    /\ local(checkAgentApiAvailability_fetched(Delivered, f))

\* response.json() of the health check settles.
healthParsed(body) ==
    /\ ctl.health = "json"
    /\ Deliverable
    /\ local(checkAgentApiAvailability_parsed(Delivered, body))

\* The user types in the textarea.
setInstructions(text) ==
    /\ text \in Instructions
    /\ text # ctl.instructions
    /\ Deliverable
    /\ local(Handled([Delivered EXCEPT !.instructions = text, !.event = "setInstructions",
                                 !.result = "none"], <<>>, <<>>))

\* The user clicks the button, which is disabled while isConnecting and
\* calls handleStop while isRoomConnected, handleStart otherwise.
onClick ==
    /\ ~ctl.isConnecting
    /\ Deliverable
    /\ \E name \in RoomNames :
          calling(IF ctl.isRoomConnected THEN handleStop(Delivered) ELSE handleStart(Delivered, name))

\* fetch of the i-th request for op settles, rejected or resolved with a
\* response of status f: the client function goes on to `await
\* response.json()`, or to its end where it does not read the body.
requestFetched(op, i, f) ==
    /\ i \in Requested(ctl, op)
    /\ RequestAt(ctl, op, i).phase = "fetch"
    /\ Deliverable
    /\ LET a == RequestAt(ctl, op, i)
           e == EndOf(op, f, NoBody)
       IN  IF ReadsBody(op, f)
           THEN local(Handled(WithRequest(Delivered, op, i,
                                          [a EXCEPT !.phase = "json", !.fetch = f]),
                              <<>>, <<>>))
           ELSE /\ render(Handled(WithRequest(Delivered, op, i,
                                      [a EXCEPT !.phase = "done", !.fetch = f,
                                                !.result = e.result,
                                                !.logged = @ \o e.logs]),
                                  <<>>, <<>>))
                /\ Logs(e.logs)

\* response.json() of the i-th request for op settles, body being the
\* text of the response, and the client function runs to its end.
requestParsed(op, i, body) ==
    /\ i \in Requested(ctl, op)
    /\ RequestAt(ctl, op, i).phase = "json"
    /\ Deliverable
    /\ LET a == RequestAt(ctl, op, i)
           e == EndOf(op, a.fetch, body)
       IN  /\ render(Handled(WithRequest(Delivered, op, i,
                                 [a EXCEPT !.phase = "done", !.body = body,
                                           !.result = e.result,
                                           !.logged = @ \o e.logs]),
                             <<>>, <<>>))
           /\ Logs(e.logs)

\* getLiveKitToken has settled and run i of handleStart goes on.
tokenSettles(i) ==
    /\ i \in DOMAIN ctl.runs
    /\ ctl.runs[i].call.phase = "done"
    /\ calling(handleStart_resume([ctl EXCEPT !.runs = Remove(@, i)], ctl.runs[i]))

\* startAgentSession request i has settled: its then or catch callback
\* runs.
agentSettles(i) ==
    /\ i \in DOMAIN ctl.agents
    /\ ctl.agents[i].call.phase = "done"
    /\ local(startAgentSession_then(ctl, i))

\* stopAgentSession has settled and run i of handleStop goes on.
stopSettles(i) ==
    /\ i \in DOMAIN ctl.stops
    /\ ctl.stops[i].phase = "done"
    /\ local(handleStop_resume([ctl EXCEPT !.stops = Remove(@, i)], ctl.stops[i]))

\* setTimeout(() => setIsManualDisconnect(false), 500)
timerFires ==
    /\ ctl.timers > 0
    /\ Deliverable
    /\ local(Handled([Delivered EXCEPT !.timers = @ - 1, !.isManualDisconnect = FALSE,
                                 !.event = "timer", !.result = "none"], <<>>, <<>>))

\* The room connects, is disconnected, or reports an error.
roomConnected ==
    /\ ctl.room = "connecting"
    /\ Deliverable
    /\ local(onConnected(Delivered))

roomDisconnected ==
    /\ ctl.room = "connected"
    /\ Deliverable
    /\ local(onDisconnected(Delivered))

roomError ==
    /\ ctl.room \in {"connecting", "connected"}
    /\ Deliverable
    /\ local(onError(Delivered))

ApiInit ==
    /\ request = NoRequest
    /\ response = NoResponse
    /\ acall = NoApiCall
    /\ ctl = NoController

Init == FacadeInit /\ DetailInit /\ OpenInit /\ ClmInit /\ ApiInit

Next ==
    \/ info
    \/ error
    \/ success
    \/ warn
    \/ getAllLogs
    \/ \E t \in LogType : getLogsByType(t)
    \/ clearLogs
    \/ getLogsCount
    \/ \E id \in Pending, ok \in BOOLEAN, uuid \in FreshUuids \cup {0} : log_settle(id, ok, uuid)
    \/ \E id \in Pending, ok \in BOOLEAN : read_settle(id, ok)
    \/ \E id \in Pending, ok \in BOOLEAN : clear_settle(id, ok)
    \/ \E throws \in BOOLEAN, eff \in Effects : InvokeListener(throws, eff)
    \/ \E l \in Listeners : Subscribe(l)
    \/ \E l \in Listeners : Unsubscribe(l)
    \/ Tick

Spec == Init /\ [][Next]_vars

\* The facade wherever the module was loaded.
InitAnywhere ==
    /\ \E win \in BOOLEAN : FacadeLoaded(win)
    /\ DetailInit /\ OpenInit /\ ClmInit /\ ApiInit

\* The facade with callers that replace its sink.
NextStorage ==
    \/ \E k \in CustomSinks : setStorage(k)
    \/ info
    \/ getAllLogs
    \/ clearLogs
    \/ getLogsCount
    \/ \E id \in Pending, ok \in BOOLEAN, uuid \in FreshUuids \cup {0} : log_settle(id, ok, uuid)
    \/ \E id \in Pending, ok \in BOOLEAN : read_settle(id, ok)
    \/ \E id \in Pending, ok \in BOOLEAN : clear_settle(id, ok)
    \/ \E throws \in BOOLEAN : InvokeListener(throws, [op |-> "none", l |-> 0])
    \/ \E l \in Listeners : Subscribe(l)
    \/ Tick

SpecStorage == InitAnywhere /\ [][NextStorage]_vars

\* The most records the object store is given, and the latest time a call
\* is made at, when the sink is exercised.
MaxRecords == 2
MaxStamp == 1

\* The events of a run that exercises the sink: the leveled calls, the
\* ticks and one more call.
SinkOps == MaxRecords + MaxStamp + 1

\* The categories the callers of such a run use.
SinkTypes == {"info", "error"}

\* A method of the facade is called while at most one other call is in
\* flight, the leveled methods as long as the records stored and the leveled
\* calls in flight are fewer than MaxRecords.
callSink(kind, type) ==
    /\ Len(calls) < 2
    /\ kind = "log" =>
          Cardinality(uuids) + Cardinality({k \in 1..Len(calls) : calls[k].kind = "log"})
              < MaxRecords
    /\ IssueWithin(kind, type, SinkOps)
    /\ UNCHANGED beside

\* Time passes, up to MaxStamp.
Elapse ==
    /\ clock < MaxStamp
    /\ TickWithin(SinkOps)

\* The facade with nobody subscribed, and its sink.
NextSink ==
    \/ \E type \in SinkTypes : callSink("log", type)
    \/ callSink("getAll", "none")
    \/ \E type \in SinkTypes : callSink("getByType", type)
    \/ callSink("clear", "none")
    \/ callSink("count", "none")
    \/ \E id \in Pending, ok \in BOOLEAN, uuid \in FreshUuids \cup {0} : log_settle(id, ok, uuid)
    \/ \E id \in Pending, ok \in BOOLEAN : read_settle(id, ok)
    \/ \E id \in Pending, ok \in BOOLEAN : clear_settle(id, ok)
    \/ Elapse

SpecSink == Init /\ [][NextSink]_vars

\* One IndexedDBLogStorage instance, constructed anywhere, and the
\* operations called on it as time passes.
NextOpen ==
    \/ \E e \in Environments : construct(e)
    \/ \E kind \in StorageOps : callStorage(kind)
    \/ \E k \in 1..MaxCallers, ok \in BOOLEAN : openSettles(k, ok)
    \/ \E i \in 1..MaxCallers : resumeStorage(i)
    \/ \E i \in 1..MaxCallers, ok \in BOOLEAN : requestSettles(i, ok)
    \/ Elapse

SpecOpen == Init /\ [][NextOpen]_vars

\* The same instance with all its operations called within one millisecond.
NextOpening ==
    \/ \E e \in Environments : construct(e)
    \/ \E kind \in StorageOps : callStorage(kind)
    \/ \E k \in 1..MaxCallers, ok \in BOOLEAN : openSettles(k, ok)
    \/ \E i \in 1..MaxCallers : resumeStorage(i)
    \/ \E i \in 1..MaxCallers, ok \in BOOLEAN : requestSettles(i, ok)

SpecOpening == Init /\ [][NextOpening]_vars

\* The same instance with a storage engine that may leave the open request
\* unanswered: an operation whose database promise has settled goes on and
\* its own request is answered, while nothing makes the open request
\* succeed or fail.
SpecStalled ==
    /\ Init
    /\ [][NextOpen]_vars
    /\ WF_vars(\E i \in 1..MaxCallers : resumeStorage(i))
    /\ WF_vars(\E i \in 1..MaxCallers, ok \in BOOLEAN : requestSettles(i, ok))

\* The collector facade.
NextClm ==
    \/ \E win \in BOOLEAN, url \in EnvUrls : constructLogger(win, url)
    \/ \E url \in EnvUrls : setEnvUrl(url)
    \/ clm_info
    \/ clm_error
    \/ clm_success
    \/ clm_warn
    \/ clm_debug
    \/ \E id \in ClmPending, how \in {"2xx", "non2xx", "reject"} : fetchSettles(id, how)
    \/ \E id \in ClmPending, ok \in BOOLEAN : bodySettles(id, ok)

SpecClm == Init /\ [][NextClm]_vars

\* The facade with components using the useLogger hook.
NextHook ==
    \/ useEffect
    \/ \E h \in Listeners : useEffect_cleanup(h)
    \/ info
    \/ clearLogs
    \/ \E id \in Pending, ok \in BOOLEAN, uuid \in FreshUuids \cup {0} : log_settle(id, ok, uuid)
    \/ \E id \in Pending, ok \in BOOLEAN : read_settle(id, ok)
    \/ \E id \in Pending, ok \in BOOLEAN : clear_settle(id, ok)
    \/ \E id \in Pending : loadLogs_resume(id)
    \/ hookInvoked
    \/ \E throws \in BOOLEAN, eff \in Effects : plainInvoked(throws, eff)
    \/ \E l \in Listeners : Subscribe(l)
    \/ Tick

SpecHook == Init /\ [][NextHook]_vars

\* A leveled method is called by a caller that awaits each leveled call
\* before it makes the next.
awaitedInfo ==
    /\ \A k \in 1..Len(calls) : calls[k].kind # "log"
    /\ info

\* The same components and listeners, with leveled calls awaited in turn.
NextAwaited ==
    \/ useEffect
    \/ \E h \in Listeners : useEffect_cleanup(h)
    \/ awaitedInfo
    \/ clearLogs
    \/ \E id \in Pending, ok \in BOOLEAN, uuid \in FreshUuids \cup {0} : log_settle(id, ok, uuid)
    \/ \E id \in Pending, ok \in BOOLEAN : read_settle(id, ok)
    \/ \E id \in Pending, ok \in BOOLEAN : clear_settle(id, ok)
    \/ \E id \in Pending : loadLogs_resume(id)
    \/ hookInvoked
    \/ \E throws \in BOOLEAN, eff \in Effects : plainInvoked(throws, eff)
    \/ \E l \in Listeners : Subscribe(l)
    \/ Tick

SpecAwaited == Init /\ [][NextAwaited]_vars

\* The hook and its initial load: no other listener.
NextLoad ==
    \/ useEffect
    \/ \E h \in Listeners : useEffect_cleanup(h)
    \/ info
    \/ \E id \in Pending, ok \in BOOLEAN, uuid \in FreshUuids \cup {0} : log_settle(id, ok, uuid)
    \/ \E id \in Pending, ok \in BOOLEAN : read_settle(id, ok)
    \/ \E id \in Pending : loadLogs_resume(id)
    \/ hookInvoked

\* The promise a sink operation returned settles in the end, a method that
\* awaits goes on once the promise it awaits has settled, and forEach goes
\* through its range.
SpecLoad ==
    /\ Init
    /\ [][NextLoad]_vars
    /\ WF_vars(\E id \in Pending, ok \in BOOLEAN : read_settle(id, ok))
    /\ WF_vars(\E id \in Pending : loadLogs_resume(id))
    /\ WF_vars(hookInvoked)

\* The facade and its subscribers: leveled calls and their notifications.
NextNotify ==
    \/ info
    \/ \E id \in Pending, ok \in BOOLEAN, uuid \in FreshUuids \cup {0} : log_settle(id, ok, uuid)
    \/ \E throws \in BOOLEAN, eff \in Effects : InvokeListener(throws, eff)
    \/ \E l \in Listeners : Subscribe(l)
    \/ \E l \in Listeners : Unsubscribe(l)

SpecNotify == Init /\ [][NextNotify]_vars

\* The facade with callers that read, within one millisecond.
NextReads ==
    \/ info
    \/ getAllLogs
    \/ \E t \in LogType : getLogsByType(t)
    \/ getLogsCount
    \/ clearLogs
    \/ \E id \in Pending, ok \in BOOLEAN, uuid \in FreshUuids \cup {0} : log_settle(id, ok, uuid)
    \/ \E id \in Pending, ok \in BOOLEAN : read_settle(id, ok)
    \/ \E id \in Pending, ok \in BOOLEAN : clear_settle(id, ok)
    \/ \E throws \in BOOLEAN : InvokeListener(throws, [op |-> "none", l |-> 0])
    \/ \E l \in Listeners : Subscribe(l)

SpecReads == Init /\ [][NextReads]_vars

\* The storage operation that serves facade call id.
OpOf(id) == CHOOSE i \in 1..Len(sops) : sops[i].call = id

\* A method of the facade called with the instance as its storage, which
\* getInstance builds where there is a window and only there: the method
\* runs up to its await, inside which the storage operation runs up to
\* `await this.initDatabase()`.
facadeOnStorage(kind, type, op) ==
    /\ env \in {"browser", "noIndexedDB"}
    /\ storage.kind = "database"
    /\ IssueFacade(kind, type)
    /\ storageOp(op, ops + 1)
    /\ UNCHANGED <<detailVars, clmVars, apiVars>>

\* The storage operation serving call id goes on after `await
\* this.initDatabase()`.  With a rejected promise it rejects.  With the
\* database it makes its request, store having first given the entry of the
\* call its id.  The method of the facade is still at its own await.
backedResumes(id, uuid) ==
    /\ Idle
    /\ InFlight(id)
    /\ \E i \in 1..Len(sops) : sops[i].call = id
    /\ LET i == OpOf(id)
           c == calls[Pos(id)]
       IN  IF sops[i].kind = "store" /\ promises[sops[i].awaits] = "fulfilled"
           THEN /\ uuid \in FreshUuids
                /\ storageAwaited(i, [NoValue EXCEPT
                                         !.entry = store(db, c.ts, c.type, uuid).entry])
                /\ uuids' = uuids \cup {uuid}
           ELSE /\ uuid = 0
                /\ storageAwaited(i, NoValue)
                /\ uuids' = uuids
    /\ UNCHANGED <<listeners, db, clock, ops, calls, last, iter, trace, handles, unsubscribed, regBefore, hooks, storage>>
    /\ UNCHANGED <<env, dbPromise, promises, opens, detailVars, clmVars, apiVars>>

\* The request of the storage operation serving call id is answered: on
\* success the object store has added the entry, or has been read, and the
\* promise the operation returned resolves; on an error it rejects.
backedAnswered(id, ok) ==
    /\ Idle
    /\ \E i \in 1..Len(sops) : sops[i].call = id
    /\ LET i == OpOf(id)
           o == sops[i]
           e == o.value.entry
       IN  /\ storageAnswered(i, ok,
                  CASE o.kind = "store" -> o.value
                    [] o.kind = "getAll" -> [NoValue EXCEPT !.list = getAll(db)]
                    [] o.kind = "count" -> [NoValue EXCEPT !.num = count(db)]
                    [] OTHER -> NoValue)
           /\ db' = IF ok /\ o.kind = "store"
                    THEN store(db, e.timestamp, e.type, e.id.n).db
                    ELSE db
    /\ UNCHANGED <<listeners, uuids, clock, ops, calls, last, iter, trace, handles, unsubscribed, regBefore, hooks, storage>>
    /\ UNCHANGED <<env, dbPromise, promises, opens, detailVars, clmVars, apiVars>>

\* The storage operation serving call id has settled and the method of the
\* facade has not gone on yet.
Settled(id) ==
    /\ InFlight(id)
    /\ calls[Pos(id)].phase = "sink"
    /\ \E i \in 1..Len(sops) : sops[i].call = id
    /\ sops[OpOf(id)].step = "done"

\* Logger.log goes on after `await this.storage.store(entry)`, the
\* operation serving call id having settled: with the stored entry the try
\* block notifies and returns it; with the rejection the catch block
\* builds the temporary entry and notifies.
store_settles(id) ==
    /\ Idle
    /\ Settled(id)
    /\ calls[Pos(id)].kind = "log"
    /\ LET c == calls[Pos(id)]
           o == sops[OpOf(id)]
       IN  IF o.result = "resolved"
           THEN LET c1 == logTry(c, listeners, o.value.entry)
                IN  /\ Settle(c1)
                    /\ trace' = [call |-> id,
                                 notifs |-> <<Notif("add", c1.entry, listeners,
                                                   regBefore, unsubscribed)>>]
                    /\ UNCHANGED <<clock, ops>>
           ELSE \E dt \in Drift(0) :
                   /\ clock' = clock + dt
                   /\ ops' = ops + dt
                   /\ LET c1 == logCatch([c EXCEPT !.sink = "fail"], listeners,
                                         clock, clock + dt)
                      IN  /\ Settle(c1)
                          /\ trace' = [call |-> id,
                                       notifs |-> <<Notif("add", c1.entry, listeners,
                                                         regBefore, unsubscribed)>>]
    /\ iter' = Walk(id, listeners)
    /\ UNCHANGED <<listeners, db, uuids, handles, unsubscribed, regBefore, hooks, storage>>
    /\ UNCHANGED <<openVars, detailVars, clmVars, apiVars>>

\* getAllLogs or getLogsCount goes on after its await, the operation
\* serving call id having settled: it returns what the operation resolved
\* with, or [] or 0 from its catch block.
read_settles(id) ==
    /\ Idle
    /\ Settled(id)
    /\ calls[Pos(id)].kind \in {"getAll", "count"}
    /\ LET c == calls[Pos(id)]
           o == sops[OpOf(id)]
       IN  Settle(IF o.result = "resolved"
                  THEN Finish([c EXCEPT !.sink = "ok", !.list = o.value.list,
                                        !.num = o.value.num], "resolved")
                  ELSE IF c.kind = "getAll" THEN getAllLogs_return(c, FALSE, db)
                  ELSE getLogsCount_return(c, FALSE, db))
    /\ UNCHANGED <<listeners, db, uuids, clock, ops, iter, trace, handles, unsubscribed, regBefore, hooks, storage>>
    /\ UNCHANGED <<openVars, detailVars, clmVars, apiVars>>

\* The storage-backed facade over one IndexedDBLogStorage instance.
NextBacked ==
    \/ \E e \in Environments : construct(e)
    \/ \E k \in 1..MaxCallers, ok \in BOOLEAN : openSettles(k, ok)
    \/ facadeOnStorage("log", "info", "store")
    \/ facadeOnStorage("getAll", "none", "getAll")
    \/ facadeOnStorage("count", "none", "count")
    \/ \E id \in Pending, uuid \in FreshUuids \cup {0} : backedResumes(id, uuid)
    \/ \E id \in Pending, ok \in BOOLEAN : backedAnswered(id, ok)
    \/ \E id \in Pending : store_settles(id)
    \/ \E id \in Pending : read_settles(id)
    \/ \E throws \in BOOLEAN : InvokeListener(throws, [op |-> "none", l |-> 0])
    \/ \E l \in Listeners : Subscribe(l)

SpecBacked == Init /\ [][NextBacked]_vars

\* A request comes in, with any parameters, in any environment.
takeRequest ==
    \E identity \in Identities, room \in Rooms, region \in Regions,
       apiKey \in Secrets, apiSecret \in Secrets, host \in Hosts, jwt \in JwtOutcomes :
        tokenRoute(identity, room, region, apiKey, apiSecret, host, jwt)

\* The token endpoint.
NextToken ==
    \/ takeRequest
    \/ jwtSettles

SpecToken == Init /\ [][NextToken]_vars

\* The clients, with the collector facade they log to.
NextClient ==
    \/ \E win \in BOOLEAN, url \in EnvUrls : constructLogger(win, url)
    \/ callStart
    \/ callStop
    \/ callStatus
    \/ callToken
    \/ \E f \in Statuses \cup {NetworkError} : clientFetched(f)
    \/ \E body \in Bodies : clientParsed(body)
    \/ \E id \in ClmPending, how \in {"2xx", "non2xx", "reject"} : fetchSettles(id, how)
    \/ \E id \in ClmPending, ok \in BOOLEAN : bodySettles(id, ok)

SpecClient == Init /\ [][NextClient]_vars

\* The ConversationController.
\* The collector facade as the module of the clients has constructed it
\* when it was loaded in a browser, NEXT_PUBLIC_CLM_URL being url.
ClmLoaded(url) ==
    /\ hasWindow = TRUE
    /\ envUrl = url
    /\ clm = IF url \notin {"undefined", ""}
             THEN [constructed |-> TRUE, isClmConfigured |-> TRUE, clmUrl |-> LogUrl(url),
                   urlAtConstruction |-> url]
             ELSE [constructed |-> TRUE, isClmConfigured |-> FALSE, clmUrl |-> NoUrl,
                   urlAtConstruction |-> url]
    /\ ccalls = <<>>
    /\ cdone = NoClmCall
    /\ cn = 0

\* What NEXT_PUBLIC_CLM_URL may be where the component runs: unset, set.
ClmUrls == {"undefined", "http://clm"}

\* The page of a browser before the component is mounted, with so many
\* events ahead.
ControllerLoaded(steps) ==
    /\ FacadeInit
    /\ DetailInit
    /\ OpenInit
    /\ \E url \in ClmUrls : ClmLoaded(url)
    /\ request = NoRequest
    /\ response = NoResponse
    /\ acall = NoApiCall
    /\ ctl = [NoController EXCEPT !.left = steps]

InitController == ControllerLoaded(MaxEvents)

\* The component from its mount on.
NextController ==
    \/ \E media \in BOOLEAN, url \in BOOLEAN : mount(media, url)
    \/ \E text \in Instructions : setInstructions(text)
    \/ onClick
    \/ \E op \in ClientOps, i \in 1..MaxEvents, f \in ControllerStatuses : requestFetched(op, i, f)
    \/ \E op \in ClientOps, i \in 1..MaxEvents, body \in ControllerBodies : requestParsed(op, i, body)
    \/ \E i \in 1..MaxEvents : tokenSettles(i)
    \/ \E i \in 1..MaxEvents : agentSettles(i)
    \/ \E i \in 1..MaxEvents : stopSettles(i)
    \/ timerFires
    \/ roomConnected
    \/ roomDisconnected
    \/ roomError

SpecController == InitController /\ [][NextController]_vars

\* The mount of the component with what follows from it: the two checks of
\* its effect go on, the sink answers the calls the hook has made, the
\* facade notifies the callback of the hook and loadLogs goes on.
NextMount ==
    \/ \E media \in BOOLEAN, url \in BOOLEAN : mount(media, url)
    \/ \E found \in Devices : devicesEnumerated(found)
    \/ \E f \in ControllerStatuses : healthFetched(f)
    \/ \E body \in HealthBodies : healthParsed(body)
    \/ \E id \in Pending, ok \in BOOLEAN, uuid \in FreshUuids \cup {0} : log_settle(id, ok, uuid)
    \/ \E id \in Pending, ok \in BOOLEAN : read_settle(id, ok)
    \/ \E id \in Pending : loadLogs_resume(id)
    \/ hookInvoked

SpecMount == InitController /\ [][NextMount]_vars

\* One leveled call followed for its details, with the reads and clears
\* made before it, beside it and after it.
NextDetails ==
    \/ \E d \in Details : log_details(d)
    \/ \E ok \in BOOLEAN : store_details(ok)
    \/ getAllLogs_details
    \/ \E ok \in BOOLEAN : getAllLogs_details_resume(ok)
    \/ clearLogs_details
    \/ \E ok \in BOOLEAN : clearLogs_details_resume(ok)

SpecDetails == Init /\ [][NextDetails]_vars

\* sanitizeDetails by itself, over the details callers pass.
NextSanitize == \E d \in Details : sanitizeTwice(d)

SpecSanitize == Init /\ [][NextSanitize]_vars

----------------------------------------------------------------------------
(* What the claims speak of. *)

\* The listeners notification k of the traced call has called, as a sequence.
Invoked(k) == trace.notifs[k].invoked

\* How many times notification k has called listener l.
Times(k, l) == Cardinality({j \in 1..Len(Invoked(k)) : Invoked(k)[j] = l})

\* How many events of kind ev the traced call has delivered to listener l.
Received(ev, l) ==
    Cardinality({p \in (1..Len(trace.notifs)) \X (1..MaxOps) :
                    /\ trace.notifs[p[1]].ev = ev
                    /\ p[2] <= Len(Invoked(p[1]))
                    /\ Invoked(p[1])[p[2]] = l})

\* Notification k of the traced call is over: forEach has returned or thrown.
NotifOver(k) == k < Len(trace.notifs) \/ Idle

\* The call that completed last is the one whose notifications are traced.
LastTraced == last.id # 0 /\ trace.call = last.id

\* This step calls a listener.
Invoking == ~Idle /\ iter' # iter

Reads == {"getAll", "getByType", "count"}

----------------------------------------------------------------------------
(* Claims. *)

\* C1: whenever the sink's store call rejects, the leveled logging method
\* still resolves, with a temporary entry, and each subscribed listener
\* receives exactly one add event for that call.
C1_StoreRejectStillResolves ==
    (last.kind = "log" /\ last.sink = "fail") =>
        /\ last.outcome = "resolved"
        /\ last.entry.id.k = "temp"
        /\ LastTraced
        /\ \A l \in Range(trace.notifs[1].snap) : Received("add", l) = 1

\* C2: a leveled logging method resolves in every case, never rejects,
\* also when a subscribed listener throws while being notified, on the
\* store-success path and on the store-failure path.
C2_LogNeverRejects ==
    last.kind = "log" => last.outcome = "resolved"

\* C3: when a listener throws during a notification, every other listener
\* subscribed at that moment is still notified of that event.
C3_ListenerIsolation ==
    \A k \in 1..Len(trace.notifs) :
        NotifOver(k) =>
            \A l \in Range(trace.notifs[k].snap) \cap Range(trace.notifs[k].after) :
                Times(k, l) >= 1

\* C4: every call of a leveled logging method results in exactly one entry
\* (stored or fallback, never both) of the category of the method, and each
\* listener subscribed at notification time receives exactly one add event,
\* carrying the entry the call resolves with.
C4_OneEntryOneEvent ==
    (last.kind = "log" /\ LastTraced) =>
        /\ last.entry.type = last.type
        /\ Len(trace.notifs) = 1
        /\ trace.notifs[1].ev = "add"
        /\ trace.notifs[1].entry = last.entry
        /\ (last.entry.id.k = "temp") = (last.sink = "fail")
        /\ \A l \in Range(trace.notifs[1].snap) : Received("add", l) = 1

\* C5: once its unsubscribe function has been called a listener
\* is never invoked again for any event, an event whose notification is in
\* progress included, and unsubscribing removes no other listener.
C5_NeverInvokedOnceUnsubscribed ==
    [][/\ Invoking => iter.arr[iter.idx] \notin unsubscribed
       /\ Range(listeners) \ Range(listeners') \subseteq unsubscribed']_vars

\* C6: for every event the listeners are invoked in the order in which they
\* were registered, after any sequence of subscribe and unsubscribe calls.
C6_RegistrationOrder ==
    \A k \in 1..Len(trace.notifs) :
        \A i, j \in 1..Len(Invoked(k)) :
            i < j => <<Invoked(k)[i], Invoked(k)[j]>> \in trace.notifs[k].order

\* A notification has called two listeners, one of which changed the
\* subscriber list while the event was being delivered.
C6_Witness ==
    \E k \in 1..Len(trace.notifs) :
        Len(Invoked(k)) >= 2 /\ trace.notifs[k].changed

\* C7: when a listener changes the subscriber list while an event is being
\* delivered, no listener that stays subscribed is skipped and no listener
\* is invoked twice for that event.
C7_MutationDuringNotify ==
    \A k \in 1..Len(trace.notifs) :
        (NotifOver(k) /\ trace.notifs[k].changed) =>
            /\ \A l \in Range(trace.notifs[k].snap) \cap Range(trace.notifs[k].after) :
                  Times(k, l) = 1
            /\ \A l \in Listeners : Times(k, l) <= 1

\* C8: every call of clearLogs emits exactly one clear event to the
\* subscribers, whatever the outcome of the sink's clear, and never rejects.
C8_ClearAlwaysEmits ==
    last.kind = "clear" =>
        /\ last.outcome = "resolved"
        /\ LastTraced
        /\ Len(trace.notifs) = 1
        /\ trace.notifs[1].ev = "clear"

\* C9: clearLogs followed by getLogsCount returns 0, and the clearLogs call
\* causes exactly one clear event and no add event at each subscriber.  The
\* sink's clear is taken to have succeeded, and the count to be read before
\* anything else happens.
C9_ClearThenCount ==
    /\ (last.kind = "count" /\ last.afterClear /\ ops = last.id) => last.num = 0
    /\ (last.kind = "clear" /\ last.sink = "ok") =>
          /\ LastTraced
          /\ \A l \in Range(trace.notifs[1].snap) :
                Received("clear", l) = 1 /\ Received("add", l) = 0

\* C10: getAllLogs, getLogsByType and getLogsCount never reject; when the
\* sink operation fails they resolve with an empty list, or 0 for the
\* count; and they emit no subscriber event.
C10_ReadsNeverReject ==
    [][(last' # last /\ last'.kind \in Reads) =>
          /\ last'.outcome = "resolved"
          /\ last'.sink = "fail" => (last'.list = <<>> /\ last'.num = 0)
          /\ last'.sink = "ok" =>
                \/ last'.kind = "getAll" /\ last'.list = getAll(db)
                \/ last'.kind = "getByType" /\ last'.list = getByType(db, last'.type)
                \/ last'.kind = "count" /\ last'.num = count(db)
          /\ trace' = trace
          /\ iter' = iter]_vars

\* A read whose sink operation failed over a store that holds a record,
\* with a listener registered, has returned.
C10_Witness ==
    /\ last.kind \in Reads
    /\ last.sink = "fail"
    /\ last.outcome = "resolved"
    /\ db # {}
    /\ listeners # <<>>

\* C11: in a sequence of leveled logging calls each awaited before the next
\* is issued, the timestamps of the resulting entries are non-decreasing in
\* call order, whichever path each call took: the entry a call resolves
\* with is stamped no earlier than the entry of the call awaited before it.
C11_AwaitedTimestampsMonotone ==
    (last.kind = "log" /\ last.outcome = "resolved" /\ last.prevTs >= 0) =>
        last.entry.timestamp >= last.prevTs

\* A call on the fallback path, awaited, was followed by a call that
\* resolved with a later timestamp.
C11_Witness ==
    /\ last.kind = "log"
    /\ last.outcome = "resolved"
    /\ last.prevTs >= 0
    /\ last.entry.timestamp > last.prevTs

\* C12: the timestamp of every entry delivered to subscribers and returned
\* to the caller is the time at which the logging method was called, for
\* durable and for temporary entries alike.
C12_TimestampIsCallTime ==
    /\ last.kind = "log" => last.entry.timestamp = last.ts
    /\ \A k \in 1..Len(trace.notifs) :
          (trace.notifs[k].ev = "add" /\ InFlight(trace.call)) =>
              trace.notifs[k].entry.timestamp = calls[Pos(trace.call)].ts

\* C13: any two distinct entries produced by one facade have different
\* ids, also when produced within the same millisecond: a leveled call
\* that completes right after another one resolves with another id.
C13_IdsUnique ==
    [][(/\ last.kind = "log" /\ last'.kind = "log" /\ last'.id # last.id
        /\ last.outcome = "resolved" /\ last'.outcome = "resolved") =>
            last'.entry.id # last.entry.id]_vars

RECURSIVE PlainJSON(_)
\* A value made of null, booleans, numbers, strings, arrays and plain objects.
PlainJSON(v) ==
    CASE v.t \in {"null", "bool", "num", "str"} -> TRUE
      [] v.t = "arr" -> \A i \in 1..Len(v.kv) : PlainJSON(v.kv[i])
      [] v.t = "obj" -> v.cls = "Object" /\ \A i \in 1..Len(v.kv) : PlainJSON(v.kv[i])
      [] OTHER -> FALSE

\* An object that holds a reference to itself.
RefersToItself(v) == v.t = "obj" /\ \E i \in 1..Len(v.kv) : v.kv[i].t = "ref"

\* C14: for every plain JSON value passed as details to a leveled logging
\* method, 0, false, the empty string and null included, the entry later
\* returned by getAllLogs has details equal to the value passed, member by
\* member.
C14_DetailsRoundTrip ==
    (/\ dread.phase = "done" /\ dread.after /\ dread.ok
     /\ dcall.path = "stored" /\ PlainJSON(dcall.arg)) =>
        /\ Len(dread.list) = 1
        /\ dread.list[1] = dcall.arg

\* C15: a leveled logging method called with an object referring to itself
\* as details does not throw and resolves, and the details of its entry is
\* {name, message, stack} for an error object and otherwise a string.
C15_SelfReferenceResolves ==
    (dcall.phase = "done" /\ RefersToItself(dcall.arg)) =>
        /\ dcall.outcome = "resolved"
        /\ IF dcall.arg.cls = "Error"
           THEN dcall.details.keys = <<"name", "message", "stack">>
           ELSE dcall.details.t = "str"

\* C16: sanitizeDetails applied to a value it returned returns that value.
C16_SanitizeIdempotent ==
    ~clean.once.threw => (~clean.twice.threw /\ clean.twice.val = clean.once.val)

\* sanitizeDetails has changed an object holding an array of different
\* elements, and has been applied to its result.
C16_Witness ==
    /\ clean.arg.t = "obj"
    /\ ~clean.once.threw
    /\ clean.once.val # clean.arg
    /\ clean.once.val.t = "obj"
    /\ \E i \in 1..Len(clean.once.val.kv) :
          /\ clean.once.val.kv[i].t = "arr"
          /\ Len(clean.once.val.kv[i].kv) >= 2
    /\ ~clean.twice.threw

\* The entries of a list, newest first.
NewestFirst(list) ==
    \A i, j \in 1..Len(list) : i < j => list[i].timestamp >= list[j].timestamp

\* The list holds each record of S once and nothing else.
Exactly(list, S) == Range(list) = S /\ Len(list) = Cardinality(S)

\* C17: getLogsByType(c) returns exactly the stored entries of category c,
\* none missing and none of another category, by timestamp descending.
C17_ByTypeExactAndNewestFirst ==
    (last.kind = "getByType" /\ last.sink = "ok") =>
        /\ Exactly(last.list, {e \in db : e.type = last.type})
        /\ NewestFirst(last.list)

\* getLogsByType has returned two entries, the newer one stored under the
\* greater key, while the store holds nothing else.
C17_Witness ==
    /\ last.kind = "getByType"
    /\ Len(last.list) = 2
    /\ last.list[1].timestamp > last.list[2].timestamp
    /\ last.list[1].id.n > last.list[2].id.n

\* C18: getAll returns every entry stored and not yet cleared, each exactly
\* once, by timestamp descending.
C18_GetAllCompleteAndNewestFirst ==
    (last.kind = "getAll" /\ last.sink = "ok") =>
        /\ Exactly(last.list, db)
        /\ NewestFirst(last.list)

\* getAll has returned two entries of different timestamps, the newer one
\* stored under the smaller key.
C18_Witness ==
    /\ last.kind = "getAll"
    /\ Len(last.list) = 2
    /\ last.list[1].timestamp > last.list[2].timestamp
    /\ last.list[1].id.n < last.list[2].id.n

\* C19: for one instance at most one database open is ever attempted;
\* every storage operation called before the open completes awaits the same
\* initialization, and operations called after it completed use its result.
C19_SingleOpen ==
    /\ opens <= 1
    /\ Len(promises) <= 1
    /\ \A i \in 1..Len(sops) : sops[i].awaits = dbPromise

\* Two operations were called while the database was being opened and one
\* after it was open; the three have gone on with the one database.
C19_Witness ==
    /\ opens = 1
    /\ Cardinality({i \in 1..Len(sops) : sops[i].calledWhile = "pending"}) >= 2
    /\ \E i \in 1..Len(sops) : sops[i].calledWhile = "fulfilled"
    /\ \A i \in 1..Len(sops) : sops[i].result = "resolved"

\* C33: constructing the store where there is no window fails at
\* construction: no instance comes to exist there, so none holds a
\* database promise and no operation is ever called on one.
C33_FailsFastOutsideBrowser ==
    env = "server" => (dbPromise = 0 /\ sops = <<>>)

\* The open attempt of the instance has failed.
OpenFailed == dbPromise # 0 /\ promises[dbPromise] = "rejected"

\* The completed call of the facade was made after the open attempt failed.
LaterCall ==
    /\ last.id # 0
    /\ \E i \in 1..Len(sops) : sops[i].call = last.id
    /\ sops[OpOf(last.id)].calledWhile = "rejected"

\* C34: once the open attempt has failed no storage operation makes a new
\* promise or requests a new open, every later operation awaits the
\* rejected promise, every later leveled call is answered with a temporary
\* entry and every later read with an empty result.
C34_FailedOpenIsPermanent ==
    OpenFailed =>
        /\ Len(promises) = 1
        /\ opens = (IF env = "browser" THEN 1 ELSE 0)
        /\ \A i \in 1..Len(sops) :
              sops[i].calledWhile = "rejected" => sops[i].awaits = dbPromise
        /\ LaterCall =>
              /\ last.sink = "fail"
              /\ last.outcome = "resolved"
              /\ last.kind = "log" => last.entry.id.k = "temp"
              /\ last.kind = "getAll" => last.list = <<>>
              /\ last.kind = "count" => last.num = 0

\* The console method whose severity is that of the category of a leveled
\* method; a success is written with console.log.
SeverityOf(method) ==
    CASE method = "info" -> "info"
      [] method = "warn" -> "warn"
      [] method = "error" -> "error"
      [] method = "debug" -> "debug"
      [] OTHER -> "log"

\* C20: when the collector URL is unset at construction the collector stays
\* disabled for the whole process lifetime: every later leveled call
\* resolves, attempts no network call, and writes the message once to the
\* console at the severity of its category, tagged as CLM-disabled.
C20_DisabledStaysDisabled ==
    (clm.constructed /\ clm.urlAtConstruction \in {"undefined", ""}) =>
        /\ ~clm.isClmConfigured
        /\ ccalls = <<>>
        /\ cdone.id # 0 =>
              /\ cdone.outcome = "resolved"
              /\ cdone.posts = 0
              /\ cdone.writes = <<[what |-> "message",
                                   method |-> SeverityOf(cdone.method),
                                   tag |-> "(CLM Disabled)"]>>

\* A leveled call has completed on a collector constructed in a browser
\* without the URL, after the variable was given a URL.
C20_Witness ==
    /\ clm.constructed
    /\ hasWindow
    /\ clm.urlAtConstruction = "undefined"
    /\ envUrl = "http://clm"
    /\ cdone.id # 0
    /\ cdone.arg # Undefined

----------------------------------------------------------------------------
(* The collector facade, configured. *)

Configured == clm.constructed /\ hasWindow /\ clm.isClmConfigured
Echoes(c) == SelectSeq(c.writes, LAMBDA w : w.what = "message")
Warnings(c) == SelectSeq(c.writes, LAMBDA w : w.what = "failure")

\* C21: on a configured collector every leveled call makes exactly one POST
\* attempt, whatever becomes of the request, and a call answered with a
\* non-2xx response resolves with a console warning.
C21_ExactlyOnePost ==
    Configured =>
        /\ \A k \in 1..Len(ccalls) : ccalls[k].posts = 1
        /\ cdone.id # 0 =>
              /\ cdone.posts = 1
              /\ cdone.response = "non2xx" =>
                    cdone.outcome = "resolved" /\ Len(Warnings(cdone)) = 1

\* C22: a leveled call whose fetch rejected, or whose error response body
\* could not be read, resolves, after one console warning and the console
\* fallback write of the message.
C22_NetworkFailureResolves ==
    (cdone.id # 0 /\ (cdone.response = "reject" \/ cdone.body = "failed")) =>
        /\ cdone.outcome = "resolved"
        /\ cdone.posts = 1
        /\ cdone.writes = <<FailureWarning,
                            [what |-> "message", method |-> SeverityOf(cdone.method),
                             tag |-> "(CLM Network Fail)"]>>

\* Both network failures have been seen: here the body of a non-2xx
\* response could not be read.
C22_Witness == cdone.id # 0 /\ cdone.response = "non2xx" /\ cdone.body = "failed"

\* C30: the message is echoed to the console once, with the console method
\* of its category, when and only when it was not delivered; a call
\* answered 2xx writes nothing to the console.
C30_EchoIffNotDelivered ==
    cdone.id # 0 =>
        IF cdone.response = "2xx"
        THEN cdone.writes = <<>>
        ELSE /\ Len(Echoes(cdone)) = 1
             /\ Echoes(cdone)[1].method = SeverityOf(cdone.method)

\* C32: a leveled call made without details returns an entry without
\* details, stored or temporary, and a collector call made without details
\* posts a payload without details.
C32_NoDetailsWhenNonePassed ==
    /\ (dcall.phase = "done" /\ dcall.outcome = "resolved" /\ dcall.arg = Undefined) =>
           dcall.details = Undefined
    /\ \A c \in Range(ccalls) \cup {cdone} :
           (c.posts = 1 /\ c.arg = Undefined) => c.payload.details = Undefined

\* The string form of the category of each leveled method.
CategoryOf(method) ==
    CASE method = "info" -> "info"
      [] method = "success" -> "success"
      [] method = "warn" -> "warning"
      [] method = "error" -> "error"
      [] method = "debug" -> "debug"

\* The calls of a configured collector that have posted their payload.
Posted == {c \in Range(ccalls) \cup {cdone} : c.id # 0 /\ c.posts = 1}

\* C31: the level field of the payload posted by info, success, warn, error
\* and debug is the string form of the category of the method called; a
\* debug call is posted with level "debug".
C31_PayloadLevel == \A c \in Posted : c.payload.level = CategoryOf(c.method)

\* A debug call has posted its payload.
C31_Witness == \E c \in Posted : c.method = "debug" /\ c.response = "2xx"

----------------------------------------------------------------------------
(* The useLogger hook as a subscriber. *)

\* The leveled calls in flight or just completed that were issued once
\* the leveled call before them had resolved, no call being in flight.
Awaited == {c \in Range(calls) \cup {last} : c.kind = "log" /\ c.prevTs >= 0}

\* C23: leveled calls being awaited one after the other, a subscriber is
\* handed the add event of a call after the add events of the call before
\* it, on the stored path and on the fallback path alike.
C23_EventsInCallOrder ==
    \A c \in Awaited : \A h \in Mounted :
        \A i, j \in 1..Len(hooks[h].from) :
            (hooks[h].from[i] \in 1..(c.id - 1) /\ hooks[h].from[j] = c.id) => j < i

\* A hook holds the entries of two calls awaited in turn, of which the
\* second took the fallback path.
C23_Witness ==
    /\ last.kind = "log" /\ last.prevTs >= 0 /\ last.sink = "fail"
    /\ \E h \in Mounted :
          /\ Len(hooks[h].from) = 2
          /\ hooks[h].from[1] = last.id
          /\ hooks[h].from[2] \in 1..(last.id - 1)

\* C25: in the list a hook holds no entry is preceded by an entry with a
\* smaller timestamp.
C25_HookListNewestFirst ==
    \A h \in Mounted : \A i, j \in 1..Len(hooks[h].logs) :
        i < j => hooks[h].logs[i].timestamp >= hooks[h].logs[j].timestamp

\* C26: a hook starts with loading true and, the read of its initial load
\* settling, comes to loading false unless it is unmounted first; after a
\* failed read the list it holds is empty, and loadLogs has caught nothing.
C26_LoadingEnds ==
    /\ [](\A h \in DOMAIN hooks :
            /\ (hooks[h].state = "mounted" /\ hooks[h].load = "none") => hooks[h].loading
            /\ hooks[h].load = "failed" => hooks[h].loaded = <<>>
            /\ hooks[h].load # "threw")
    /\ \A h \in Listeners :
          (h \in Mounted) ~>
              (h \in DOMAIN hooks /\ (hooks[h].state = "unmounted" \/ ~hooks[h].loading))

\* The initial read of a mounted hook has failed, in a run in which the
\* sink has stored an entry.
C26_Witness ==
    \E h \in Mounted : hooks[h].load = "failed" /\ ~hooks[h].loading /\ uuids # {}

\* C27: as many callbacks of hooks are registered as hooks are mounted, and
\* the callback of an unmounted hook is not called any more.
C27_OneSubscriptionPerMountedHook ==
    /\ Cardinality({k \in 1..Len(listeners) : IsHook(listeners[k])}) = Cardinality(Mounted)
    /\ \A h \in DOMAIN hooks : ~hooks[h].late

\* No call of the facade is in flight, the load of a hook included.
Quiet == calls = <<>> /\ Idle

\* C35: whenever no logging, clearing or loading call is in flight the
\* list of a mounted hook holds exactly the entries of the sink, each once.
C35_HookMirrorsSink ==
    Quiet => \A h \in Mounted : Exactly(hooks[h].logs, db)

\* The places of a hook's list held by entries of leveled calls issued
\* before the clearLogs call whose event the hook was handed last.
Survivors(h) ==
    {i \in 1..Len(hooks[h].from) : hooks[h].from[i] \in 1..(hooks[h].cleared - 1)}

\* C36: once clearLogs has resolved and no call is in flight, no entry of
\* a leveled call issued before that clearLogs call is left in the list of
\* a hook, nor in the sink.
C36_NothingSurvivesClear ==
    Quiet => \A h \in Mounted :
        /\ Survivors(h) = {}
        /\ \A i \in Survivors(h) : hooks[h].logs[i] \notin db

----------------------------------------------------------------------------
(* The ConversationController. *)

\* handleStart, were it called in a state where it is connected or
\* connecting or the instructions are blank, would request no token,
\* start no agent session and set no state.
StartIgnored ==
    (ctl.isRoomConnected \/ ctl.isConnecting \/ Trim(ctl.instructions) = "") =>
        \A name \in RoomNames :
            /\ handleStart(ctl, name).clm = <<>>
            /\ handleStart(ctl, name).ctl =
                  [ctl EXCEPT !.event = "handleStart",
                              !.result = IF ctl.isRoomConnected \/ ctl.isConnecting
                                         THEN "ignored" ELSE "alert"]

\* C37: handleStart does nothing while isRoomConnected or isConnecting is
\* true and nothing when the instructions are blank, and at most one run
\* of handleStart is between its guards and its end at any time.
C37_OneStartInFlight ==
    /\ [](StartIgnored)
    /\ [](Len(ctl.runs) <= 1)

\* C38: a run of handleStart that passed the guards ends with isConnecting
\* false; a run whose token request rejected, or gave an empty token or
\* URL, ends with token, serverUrl and activeRoomName empty, isRoomConnected
\* false and no LiveKitRoom rendered.
C38_StartEndsClean ==
    ctl.event = "handleStart_end" =>
        /\ ~ctl.isConnecting
        /\ ctl.result \in {"rejected", "empty"} =>
              /\ ctl.token = "" /\ ctl.serverUrl = "" /\ ctl.activeRoomName = ""
              /\ ~ctl.isRoomConnected
              /\ ctl.room = "none"

\* A second run of handleStart has ended on a rejected token request,
\* after an earlier run obtained its token and called startAgentSession.
C38_Witness ==
    /\ ctl.event = "handleStart_end"
    /\ ctl.result = "rejected"
    /\ ctl.tokenCalls >= 2
    /\ ctl.agents # <<>>

\* A call of handleStop made while connected or holding a token calls
\* stopAgentSession once and requests no token.
StopCalled ==
    (ctl'.event = "handleStop" /\ (ctl.isRoomConnected \/ ctl.token # "")) =>
        /\ ctl'.stopCalls = ctl.stopCalls + 1
        /\ Len(ctl'.stops) = Len(ctl.stops) + 1
        /\ ctl'.tokenCalls = ctl.tokenCalls
        /\ ctl'.runs = ctl.runs

\* The run of handleStop ends, stopAgentSession having resolved or
\* rejected, without another call, with token and serverUrl empty and
\* isRoomConnected false.
StopEnded ==
    ctl'.event = "handleStop_end" =>
        /\ ctl'.stopCalls = ctl.stopCalls /\ ctl'.tokenCalls = ctl.tokenCalls
        /\ Len(ctl'.stops) = Len(ctl.stops) - 1
        /\ ctl'.token = "" /\ ctl'.serverUrl = "" /\ ~ctl'.isRoomConnected
        /\ ctl'.room = "none"

\* handleStop, were it called in a state where it is not connected and
\* holds no token, would call no API and set no state.
StopIgnored ==
    (~ctl.isRoomConnected /\ ctl.token = "") =>
        /\ handleStop(ctl).clm = <<>>
        /\ handleStop(ctl).ctl = [ctl EXCEPT !.event = "handleStop", !.result = "ignored"]

\* C39: handleStop called while connected or while a token is held calls
\* stopAgentSession exactly once and ends with token and serverUrl empty
\* and isRoomConnected false, whether stopAgentSession resolves or rejects;
\* called while not connected and with no token it calls no API and
\* changes no connection state.
C39_StopClears ==
    /\ [][StopCalled /\ StopEnded]_vars
    /\ [](StopIgnored)

\* A run of handleStop called while connected has ended on a rejected
\* stopAgentSession.
C39_Witness ==
    /\ ctl.event = "handleStop_end"
    /\ ctl.result = "rejected"
    /\ ctl.stopCalls = 1
    /\ ctl.stops = <<>>
    /\ ctl.tokenCalls = 1

\* The controller is idle: not connected and without a token.
ControllerIdle == ~ctl.isRoomConnected /\ ctl.token = ""

\* C40: whenever a startAgentSession issued by handleStart has succeeded
\* and the controller is idle, stopAgentSession has been called since that
\* start.
C40_NoAgentLeftRunning ==
    ControllerIdle =>
        \A i \in DOMAIN ctl.agents :
            ctl.agents[i].state = "resolved" => ctl.agents[i].stopped

----------------
(* Calls made while another call is suspended. *)

\* C24: while the first call is suspended on a sink operation that never
\* completes, every call made after it completes all the same.
C24_OtherCallsComplete ==
    \A i \in 2..MaxCallers :
        (Len(sops) >= i) ~> (Len(sops) >= i /\ sops[i].result # "pending")

----------------------------------------------------------------------------
(* The HTTP boundary. *)

\* C28: once it has answered, the token endpoint has answered 400 with an
\* error when the identity is missing, whatever the credentials; 500 with an error when a credential
\* or the host is missing or the token cannot be generated; otherwise 200
\* with the token and the host URL, the room being the fixed default when
\* the parameter is absent.
C28_TokenEndpointStatus ==
    (request.called /\ response # NoResponse) =>
        LET noIdentity == request.identity \in {Null, Str("")}
            noSecret == \E v \in {request.apiKey, request.apiSecret, request.host} :
                            v \in {Undefined, Str("")}
            noJwt == request.jwt \in {"throws", "rejects"}
        IN  /\ noIdentity => response.status = 400
            /\ (~noIdentity /\ (noSecret \/ noJwt)) => response.status = 500
            /\ response.status \in {400, 500} =>
                  response.error.t = "str" /\ response.token = NoToken
            /\ ~(noIdentity \/ noSecret \/ noJwt) =>
                  /\ response.status = 200
                  /\ response.error = Undefined
                  /\ response.url = request.host
                  /\ response.token.identity = request.identity
                  /\ response.token.room =
                        IF request.room = Null THEN Str("betsy-classroom") ELSE request.room

\* A request without identity and without credentials has been answered.
C28_Witness ==
    /\ request.called /\ request.identity = Null /\ request.apiKey = Undefined
    /\ response.status = 400

\* The value of a field of a response body, when the body is JSON for an
\* object that has the field with a value that is not empty.
Available(body, field) ==
    LET p == ParseValue(body.toks)
    IN  /\ p.ok /\ Len(p.rest) = 0 /\ p.val.t = "obj"
        /\ \E i \in 1..Len(p.val.keys) :
              p.val.keys[i] = field /\ p.val.kv[i].t = "str" /\ p.val.kv[i].s # ""
FieldOf(body, field) ==
    LET v == ParseValue(body.toks).val
    IN  v.kv[CHOOSE i \in 1..Len(v.keys) : v.keys[i] = field]

GenericMessage(op) ==
    CASE op = "start" -> Str("Failed to start agent session")
      [] op = "stop" -> Str("Failed to stop agent session")
      [] OTHER -> Str("Failed to get LiveKit token")
MessageField(op) == IF op = "token" THEN "error" ELSE "detail"

\* C29: the three client functions reject when the request fails and when
\* the response is not 2xx; for such a response the message of the
\* rejection is the one of the body (detail, resp. error) when the body
\* has one, and the generic message of the operation otherwise, a body
\* that is not JSON included.
C29_FaultsPropagate ==
    (/\ acall.op \in {"start", "stop", "token"}
     /\ acall.phase = "done"
     /\ ~ResponseOk(acall.fetch)) =>
        /\ acall.result.outcome = "rejected"
        /\ acall.fetch # NetworkError =>
              acall.result.message =
                  IF Available(acall.body, MessageField(acall.op))
                  THEN FieldOf(acall.body, MessageField(acall.op))
                  ELSE GenericMessage(acall.op)

====
